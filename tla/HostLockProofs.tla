----------------------------- MODULE HostLockProofs ----------------------------
(***************************************************************************)
(* Proofs about the advisory file lock, for any number of processes, lock  *)
(* files and failures.                                                     *)
(*                                                                         *)
(* The argument: unless a documented window has opened, the process that   *)
(* breaks a lock owns the claim (Serial), nobody holds the lock it is      *)
(* about to move aside, and whoever holds the lock has its file at the     *)
(* path (Guarded), so that no other process can have made one.             *)
(***************************************************************************)
EXTENDS HostLock, TLAPS

\* Two processes never made the same lock file; what is known of a file is
\* known of one that is there; the file of a dead process is nobody's.
Identity ==
  /\ \A p, q \in Procs : mine[p] # None /\ mine[p] = mine[q] => p = q
  /\ old \cup dead \subseteq Files
  /\ \A q \in Procs : mine[q] \notin dead

Claiming == {"claim", "claimStat", "claimRecheck", "claimUnlink", "reclaim"}

\* The token of a phantom is the token of no running process.
Judgement ==
  \A p \in Procs :
    phantom[p] =>
      /\ pc[p] \in Claiming \cup Breaking
      /\ judged[p] # None => \A q \in Procs : mine[q] # judged[p]

\* Breakers own the claim; a claim somebody may unlink has no owner.
Serial ==
  ~ residual =>
    \A p \in Procs :
      /\ pc[p] \in Breaking => claimed[p]
      /\ claimed[p] => claim = p /\ ~ claimOld
      /\ same[p] => claim # None /\ claimOld

\* A holder has its file at the path, and no breaker is about to move it.
Guarded ==
  ~ residual =>
    \A p \in Procs :
      /\ Live(p) => path = mine[p] /\ mine[p] \notin old
      /\ At(p, "rename") => path # None /\ \A q \in Procs : ~ Live(q)

\* A lock file is in one place.
Locations ==
  \A p, q \in Procs :
    aside[p] # None => aside[p] # path /\ (aside[p] = aside[q] => p = q)

\* What was judged stale is over-age for as long as it is there; only a file
\* being written is empty.
Evidence ==
  \A p \in Procs :
    /\ ~ phantom[p] /\ judged[p] # None => judged[p] \in old \/ judged[p] \notin Files
    /\ At(p, "held") \/ At(p, "relRename") => mine[p] \notin empty

IInv ==
  /\ TypeOK /\ Identity /\ Judgement /\ Serial /\ Guarded
  /\ Locations /\ Evidence

--------------------------------------------------------------------------------

LEMMA FaultType ==
  ASSUME faults \in 0..MaxFaults, Fault
  PROVE  faults' \in 0..MaxFaults
  BY FaultsAssumption DEF Fault

LEMMA InitInv == Init => IInv
<1> SUFFICES ASSUME Init
             PROVE  IInv
  OBVIOUS
<1>1. Phases
  BY DEF Init, Phases, Owning, Moving
<1>2. TypeOK
  <2>1. 0 \in 0..MaxFaults
    BY FaultsAssumption
  <2> QED
    BY <1>1, <2>1 DEF Init, TypeOK, Places, Maybe
<1>3. Identity /\ Judgement
  BY DEF Init, Identity, Judgement
<1>4. Serial /\ Guarded
  BY DEF Init, Serial, Guarded, Breaking, Live, At
<1>5. Locations /\ Evidence
  BY DEF Init, Locations, Evidence, At
<1> QED
  BY <1>1, <1>2, <1>3, <1>4, <1>5 DEF IInv

\* Files and claims are where they should be.
LEMMA NextPhases == IInv /\ [Next]_vars => Phases'
<1> SUFFICES ASSUME IInv, [Next]_vars
             PROVE  Phases'
  OBVIOUS
<1> USE NoneAssumption DEF fileVars, claimVars, breakVars, At, Goto
<1>0. /\ TypeOK /\ Identity /\ Judgement /\ Serial /\ Guarded
      /\ Locations /\ Evidence
  BY DEF IInv
<1>1. ASSUME NEW p \in Procs, Acquire(p)
      PROVE  Phases'
  BY <1>0, <1>1
  DEF TypeOK, Places, Phases, Maybe, Owning, Moving, Breaking, Acquire,
      CreateFile, Fresh
<1>2. ASSUME NEW p \in Procs, InspectPhantom(p)
      PROVE  Phases'
  BY <1>0, <1>2
  DEF TypeOK, Places, Phases, Maybe, Owning, Moving, Breaking, InspectPhantom,
      Token
<1>3. ASSUME NEW p \in Procs, WriteToken(p)
      PROVE  Phases'
  BY <1>0, <1>3
  DEF TypeOK, Places, Phases, Maybe, Owning, Moving, Breaking, WriteToken
<1>4. ASSUME NEW p \in Procs, Stat(p)
      PROVE  Phases'
  BY <1>0, <1>4 DEF TypeOK, Places, Phases, Maybe, Owning, Moving, Breaking, Stat
<1>5. ASSUME NEW p \in Procs, CreateAgain(p)
      PROVE  Phases'
  BY <1>0, <1>5
  DEF TypeOK, Places, Phases, Maybe, Owning, Moving, Breaking, CreateAgain,
      CreateFile, Fresh, Return
<1>6. ASSUME NEW p \in Procs, CreateClaim(p)
      PROVE  Phases'
  BY <1>0, <1>6
  DEF TypeOK, Places, Phases, Maybe, Owning, Moving, Breaking, CreateClaim,
      Return
<1>7. ASSUME NEW p \in Procs, ClaimStat(p)
      PROVE  Phases'
  BY <1>0, <1>7
  DEF TypeOK, Places, Phases, Maybe, Owning, Moving, Breaking, ClaimStat,
      Return
<1>8. ASSUME NEW p \in Procs, ClaimRecheck(p)
      PROVE  Phases'
  BY <1>0, <1>8
  DEF TypeOK, Places, Phases, Maybe, Owning, Moving, Breaking, ClaimRecheck,
      Return
<1>9. ASSUME NEW p \in Procs, ClaimUnlink(p)
      PROVE  Phases'
  BY <1>0, <1>9
  DEF TypeOK, Places, Phases, Maybe, Owning, Moving, Breaking, ClaimUnlink,
      RemoveClaim
<1>10. ASSUME NEW p \in Procs, Check(p)
       PROVE  Phases'
  BY <1>0, <1>10
  DEF TypeOK, Places, Phases, Maybe, Owning, Moving, Breaking, Check,
      StillBreakable, Token
<1>11. ASSUME NEW p \in Procs, BreakRename(p)
       PROVE  Phases'
  BY <1>0, <1>11
  DEF TypeOK, Places, Phases, Maybe, Owning, Moving, Breaking, BreakRename,
      MoveAside
<1>12. ASSUME NEW p \in Procs, Confirm(p)
       PROVE  Phases'
  BY <1>0, <1>12
  DEF TypeOK, Places, Phases, Maybe, Owning, Moving, Breaking, Confirm,
      Confirmed, ForgetRemoved, Files
<1>13. ASSUME NEW p \in Procs, PutBack(p)
       PROVE  Phases'
  BY <1>0, <1>13
  DEF TypeOK, Places, Phases, Maybe, Owning, Moving, Breaking, PutBack, Return,
      Restore, ForgetRemoved, Files
<1>14. ASSUME NEW p \in Procs, Unclaim(p)
       PROVE  Phases'
  BY <1>0, <1>14
  DEF TypeOK, Places, Phases, Maybe, Owning, Moving, Breaking, Unclaim,
      RemoveClaim, Return
<1>15. ASSUME NEW p \in Procs, ReleaseRead(p)
       PROVE  Phases'
  BY <1>0, <1>15
  DEF TypeOK, Places, Phases, Maybe, Owning, Moving, Breaking, ReleaseRead,
      Return
<1>16. ASSUME NEW p \in Procs, ReleaseRename(p)
       PROVE  Phases'
  BY <1>0, <1>16
  DEF TypeOK, Places, Phases, Maybe, Owning, Moving, Breaking, ReleaseRename,
      MoveAside, Return
<1>17. ASSUME NEW p \in Procs, ReleaseConfirm(p)
       PROVE  Phases'
  BY <1>0, <1>17
  DEF TypeOK, Places, Phases, Maybe, Owning, Moving, Breaking, ReleaseConfirm,
      Return, ForgetRemoved, Files
<1>18. ASSUME NEW p \in Procs, FinishUnlocked(p)
       PROVE  Phases'
  BY <1>0, <1>18
  DEF TypeOK, Places, Phases, Maybe, Owning, Moving, Breaking, FinishUnlocked
<1>19. ASSUME NEW p \in Procs, AcquireFails(p)
       PROVE  Phases'
  BY <1>0, <1>19
  DEF TypeOK, Places, Phases, Maybe, Owning, Moving, Breaking, AcquireFails,
      Fault
<1>20. ASSUME NEW p \in Procs, WriteFails(p)
       PROVE  Phases'
  BY <1>0, <1>20
  DEF TypeOK, Places, Phases, Maybe, Owning, Moving, Breaking, WriteFails,
      Return, ForgetRemoved, Files, Fault
<1>21. ASSUME NEW p \in Procs, StatFails(p)
       PROVE  Phases'
  BY <1>0, <1>21
  DEF TypeOK, Places, Phases, Maybe, Owning, Moving, Breaking, StatFails,
      Fault
<1>22. ASSUME NEW p \in Procs, ClaimUnavailable(p)
       PROVE  Phases'
  BY <1>0, <1>22
  DEF TypeOK, Places, Phases, Maybe, Owning, Moving, Breaking,
      ClaimUnavailable, Fault
<1>23. ASSUME NEW p \in Procs, CheckFails(p)
       PROVE  Phases'
  BY <1>0, <1>23
  DEF TypeOK, Places, Phases, Maybe, Owning, Moving, Breaking, CheckFails,
      Fault
<1>24. ASSUME NEW p \in Procs, ConfirmFails(p)
       PROVE  Phases'
  BY <1>0, <1>24
  DEF TypeOK, Places, Phases, Maybe, Owning, Moving, Breaking, ConfirmFails,
      Fault
<1>25. ASSUME NEW p \in Procs, PutBackReplaces(p)
       PROVE  Phases'
  BY <1>0, <1>25
  DEF TypeOK, Places, Phases, Maybe, Owning, Moving, Breaking, PutBackReplaces,
      Return, ForgetRemoved, Files, Fault
<1>26. ASSUME NEW p \in Procs, ReleaseFails(p)
       PROVE  Phases'
  BY <1>0, <1>26
  DEF TypeOK, Places, Phases, Maybe, Owning, Moving, Breaking, ReleaseFails,
      Return, Fault
<1>27. ASSUME NEW p \in Procs, Crash(p)
       PROVE  Phases'
  BY <1>0, <1>27
  DEF TypeOK, Places, Phases, Maybe, Owning, Moving, Breaking, Crash, Return,
      Files, Fault
<1>28. ASSUME AgeLock
       PROVE  Phases'
  BY <1>0, <1>28
  DEF TypeOK, Places, Phases, Maybe, Owning, Moving, Breaking, AgeLock
<1>29. ASSUME AgeClaim
       PROVE  Phases'
  BY <1>0, <1>29
  DEF TypeOK, Places, Phases, Maybe, Owning, Moving, Breaking, AgeClaim
<1>30. CASE UNCHANGED vars
  BY <1>0, <1>30 DEF TypeOK, Places, Phases, Maybe, Owning, Moving, Breaking, vars
<1> QED
  BY <1>1, <1>2, <1>3, <1>4, <1>5, <1>6, <1>7, <1>8, <1>9, <1>10,
     <1>11, <1>12, <1>13, <1>14, <1>15, <1>16, <1>17, <1>18, <1>19, <1>20,
     <1>21, <1>22, <1>23, <1>24, <1>25, <1>26, <1>27, <1>28, <1>29, <1>30
  DEF Next, Step, Failure

\* Every action keeps the types.
LEMMA NextType == IInv /\ [Next]_vars => TypeOK'
<1> SUFFICES ASSUME IInv, [Next]_vars
             PROVE  TypeOK'
  OBVIOUS
<1> USE NoneAssumption DEF fileVars, claimVars, breakVars, At, Goto
<1>0. /\ TypeOK /\ Identity /\ Judgement /\ Serial /\ Guarded
      /\ Locations /\ Evidence
  BY DEF IInv
<1>1. ASSUME NEW p \in Procs, Acquire(p)
      PROVE  TypeOK'
  BY <1>0, <1>1, NextPhases, FaultType
  DEF TypeOK, Places, Maybe, Acquire, CreateFile, Fresh
<1>2. ASSUME NEW p \in Procs, InspectPhantom(p)
      PROVE  TypeOK'
  BY <1>0, <1>2, NextPhases, FaultType
  DEF TypeOK, Places, Maybe, InspectPhantom, Token
<1>3. ASSUME NEW p \in Procs, WriteToken(p)
      PROVE  TypeOK'
  BY <1>0, <1>3, NextPhases, FaultType DEF TypeOK, Places, Maybe, WriteToken
<1>4. ASSUME NEW p \in Procs, Stat(p)
      PROVE  TypeOK'
  BY <1>0, <1>4, NextPhases, FaultType DEF TypeOK, Places, Maybe, Stat
<1>5. ASSUME NEW p \in Procs, CreateAgain(p)
      PROVE  TypeOK'
  <2>1. CASE path = None
    BY <1>0, <1>5, <2>1, NextPhases
  DEF TypeOK, Places, Maybe, CreateAgain, CreateFile, Fresh
  <2>2. CASE path # None
    BY <1>0, <1>5, <2>2, NextPhases
  DEF TypeOK, Places, Maybe, CreateAgain, CreateFile, Return
  <2> QED
    BY <2>1, <2>2
<1>6. ASSUME NEW p \in Procs, CreateClaim(p)
      PROVE  TypeOK'
  BY <1>0, <1>6, NextPhases, FaultType
  DEF TypeOK, Places, Maybe, CreateClaim, Return
<1>7. ASSUME NEW p \in Procs, ClaimStat(p)
      PROVE  TypeOK'
  BY <1>0, <1>7, NextPhases, FaultType DEF TypeOK, Places, Maybe, ClaimStat, Return
<1>8. ASSUME NEW p \in Procs, ClaimRecheck(p)
      PROVE  TypeOK'
  BY <1>0, <1>8, NextPhases, FaultType
  DEF TypeOK, Places, Maybe, ClaimRecheck, Return
<1>9. ASSUME NEW p \in Procs, ClaimUnlink(p)
      PROVE  TypeOK'
  BY <1>0, <1>9, NextPhases, FaultType
  DEF TypeOK, Places, Maybe, ClaimUnlink, RemoveClaim
<1>10. ASSUME NEW p \in Procs, Check(p)
       PROVE  TypeOK'
  BY <1>0, <1>10, NextPhases, FaultType
  DEF TypeOK, Places, Maybe, Check, StillBreakable, Token
<1>11. ASSUME NEW p \in Procs, BreakRename(p)
       PROVE  TypeOK'
  BY <1>0, <1>11, NextPhases, FaultType
  DEF TypeOK, Places, Maybe, BreakRename, MoveAside
<1>12. ASSUME NEW p \in Procs, Confirm(p)
       PROVE  TypeOK'
  BY <1>0, <1>12, NextPhases, FaultType
  DEF TypeOK, Places, Maybe, Confirm, Confirmed, ForgetRemoved, Files
<1>13. ASSUME NEW p \in Procs, PutBack(p)
       PROVE  TypeOK'
  BY <1>0, <1>13, NextPhases, FaultType
  DEF TypeOK, Places, Maybe, PutBack, Return, Restore, ForgetRemoved, Files
<1>14. ASSUME NEW p \in Procs, Unclaim(p)
       PROVE  TypeOK'
  <2>1. claim' \in Maybe(Procs) /\ claimOld' \in BOOLEAN /\ same' \in [Procs -> BOOLEAN]
    <3>1. CASE claimed[p]
      BY <1>14, <3>1 DEF Maybe, Unclaim, RemoveClaim
    <3>2. CASE ~ claimed[p]
      BY <1>0, <1>14, <3>2 DEF TypeOK, Unclaim
    <3> QED
      BY <3>1, <3>2
  <2>2. /\ pc' \in [Procs -> Places] /\ claimed' \in [Procs -> BOOLEAN]
        /\ mine' \in [Procs -> Maybe(Instances)]
        /\ judged' \in [Procs -> Maybe(Instances)]
        /\ phantom' \in [Procs -> BOOLEAN]
    BY <1>0, <1>14 DEF TypeOK, Places, Maybe, Unclaim, Return
  <2> QED
    BY <1>0, <1>14, <2>1, <2>2, NextPhases DEF TypeOK, Unclaim
<1>15. ASSUME NEW p \in Procs, ReleaseRead(p)
       PROVE  TypeOK'
  BY <1>0, <1>15, NextPhases, FaultType
  DEF TypeOK, Places, Maybe, ReleaseRead, Return
<1>16. ASSUME NEW p \in Procs, ReleaseRename(p)
       PROVE  TypeOK'
  <2>1. CASE path = None
    BY <1>0, <1>16, <2>1, NextPhases
  DEF TypeOK, Places, Maybe, ReleaseRename, MoveAside, Return
  <2>2. CASE path # None
    BY <1>0, <1>16, <2>2, NextPhases
  DEF TypeOK, Places, Maybe, ReleaseRename, MoveAside, Return
  <2> QED
    BY <2>1, <2>2
<1>17. ASSUME NEW p \in Procs, ReleaseConfirm(p)
       PROVE  TypeOK'
  BY <1>0, <1>17, NextPhases, FaultType
  DEF TypeOK, Places, Maybe, ReleaseConfirm, Return, ForgetRemoved, Files
<1>18. ASSUME NEW p \in Procs, FinishUnlocked(p)
       PROVE  TypeOK'
  BY <1>0, <1>18, NextPhases, FaultType DEF TypeOK, Places, Maybe, FinishUnlocked
<1>19. ASSUME NEW p \in Procs, AcquireFails(p)
       PROVE  TypeOK'
  BY <1>0, <1>19, NextPhases, FaultType DEF TypeOK, Places, Maybe, AcquireFails
<1>20. ASSUME NEW p \in Procs, WriteFails(p)
       PROVE  TypeOK'
  BY <1>0, <1>20, NextPhases, FaultType
  DEF TypeOK, Places, Maybe, WriteFails, Return, ForgetRemoved, Files
<1>21. ASSUME NEW p \in Procs, StatFails(p)
       PROVE  TypeOK'
  BY <1>0, <1>21, NextPhases, FaultType DEF TypeOK, Places, Maybe, StatFails
<1>22. ASSUME NEW p \in Procs, ClaimUnavailable(p)
       PROVE  TypeOK'
  BY <1>0, <1>22, NextPhases, FaultType DEF TypeOK, Places, Maybe, ClaimUnavailable
<1>23. ASSUME NEW p \in Procs, CheckFails(p)
       PROVE  TypeOK'
  BY <1>0, <1>23, NextPhases, FaultType DEF TypeOK, Places, Maybe, CheckFails
<1>24. ASSUME NEW p \in Procs, ConfirmFails(p)
       PROVE  TypeOK'
  BY <1>0, <1>24, NextPhases, FaultType DEF TypeOK, Places, Maybe, ConfirmFails
<1>25. ASSUME NEW p \in Procs, PutBackReplaces(p)
       PROVE  TypeOK'
  BY <1>0, <1>25, NextPhases, FaultType
  DEF TypeOK, Places, Maybe, PutBackReplaces, Return, ForgetRemoved, Files
<1>26. ASSUME NEW p \in Procs, ReleaseFails(p)
       PROVE  TypeOK'
  BY <1>0, <1>26, NextPhases, FaultType
  DEF TypeOK, Places, Maybe, ReleaseFails, Return
<1>27. ASSUME NEW p \in Procs, Crash(p)
       PROVE  TypeOK'
  BY <1>0, <1>27, NextPhases, FaultType
  DEF TypeOK, Places, Maybe, Crash, Return, Files
<1>28. ASSUME AgeLock
       PROVE  TypeOK'
  BY <1>0, <1>28, NextPhases, FaultType DEF TypeOK, Places, Maybe, AgeLock
<1>29. ASSUME AgeClaim
       PROVE  TypeOK'
  BY <1>0, <1>29, NextPhases, FaultType DEF TypeOK, Places, Maybe, AgeClaim
<1>30. CASE UNCHANGED vars
  BY <1>0, <1>30, NextPhases, FaultType DEF TypeOK, Places, Maybe, vars
<1> QED
  BY <1>1, <1>2, <1>3, <1>4, <1>5, <1>6, <1>7, <1>8, <1>9, <1>10,
     <1>11, <1>12, <1>13, <1>14, <1>15, <1>16, <1>17, <1>18, <1>19, <1>20,
     <1>21, <1>22, <1>23, <1>24, <1>25, <1>26, <1>27, <1>28, <1>29, <1>30
  DEF Next, Step, Failure

\* Files stay told apart.
LEMMA NextIdentity == IInv /\ [Next]_vars => Identity'
<1> SUFFICES ASSUME IInv, [Next]_vars
             PROVE  Identity'
  OBVIOUS
<1> USE NoneAssumption DEF fileVars, claimVars, breakVars, At, Goto
<1>0. /\ TypeOK /\ Identity /\ Judgement /\ Serial /\ Guarded
      /\ Locations /\ Evidence
  BY DEF IInv
<1>1. ASSUME NEW p \in Procs, Acquire(p)
      PROVE  Identity'
  BY <1>0, <1>1
  DEF TypeOK, Places, Phases, Maybe, Owning, Moving, Breaking, Identity, Files,
      Acquire, CreateFile, Fresh
<1>2. ASSUME NEW p \in Procs, InspectPhantom(p)
      PROVE  Identity'
  BY <1>0, <1>2
  DEF TypeOK, Places, Phases, Maybe, Owning, Moving, Breaking, Identity, Files,
      InspectPhantom, Token
<1>3. ASSUME NEW p \in Procs, WriteToken(p)
      PROVE  Identity'
  BY <1>0, <1>3
  DEF TypeOK, Places, Phases, Maybe, Owning, Moving, Breaking, Identity, Files,
      WriteToken
<1>4. ASSUME NEW p \in Procs, Stat(p)
      PROVE  Identity'
  BY <1>0, <1>4
  DEF TypeOK, Places, Phases, Maybe, Owning, Moving, Breaking, Identity, Files,
      Stat
<1>5. ASSUME NEW p \in Procs, CreateAgain(p)
      PROVE  Identity'
  BY <1>0, <1>5
  DEF TypeOK, Places, Phases, Maybe, Owning, Moving, Breaking, Identity, Files,
      CreateAgain, CreateFile, Fresh, Return
<1>6. ASSUME NEW p \in Procs, CreateClaim(p)
      PROVE  Identity'
  BY <1>0, <1>6
  DEF TypeOK, Places, Phases, Maybe, Owning, Moving, Breaking, Identity, Files,
      CreateClaim, Return
<1>7. ASSUME NEW p \in Procs, ClaimStat(p)
      PROVE  Identity'
  BY <1>0, <1>7
  DEF TypeOK, Places, Phases, Maybe, Owning, Moving, Breaking, Identity, Files,
      ClaimStat, Return
<1>8. ASSUME NEW p \in Procs, ClaimRecheck(p)
      PROVE  Identity'
  BY <1>0, <1>8
  DEF TypeOK, Places, Phases, Maybe, Owning, Moving, Breaking, Identity, Files,
      ClaimRecheck, Return
<1>9. ASSUME NEW p \in Procs, ClaimUnlink(p)
      PROVE  Identity'
  BY <1>0, <1>9
  DEF TypeOK, Places, Phases, Maybe, Owning, Moving, Breaking, Identity, Files,
      ClaimUnlink, RemoveClaim
<1>10. ASSUME NEW p \in Procs, Check(p)
       PROVE  Identity'
  BY <1>0, <1>10
  DEF TypeOK, Places, Phases, Maybe, Owning, Moving, Breaking, Identity, Files,
      Check, StillBreakable, Token
<1>11. ASSUME NEW p \in Procs, BreakRename(p)
       PROVE  Identity'
  BY <1>0, <1>11
  DEF TypeOK, Places, Phases, Maybe, Owning, Moving, Breaking, Identity, Files,
      BreakRename, MoveAside
<1>12. ASSUME NEW p \in Procs, Confirm(p)
       PROVE  Identity'
  BY <1>0, <1>12
  DEF TypeOK, Places, Phases, Maybe, Owning, Moving, Breaking, Identity, Files,
      Confirm, Confirmed, ForgetRemoved
<1>13. ASSUME NEW p \in Procs, PutBack(p)
       PROVE  Identity'
  BY <1>0, <1>13
  DEF TypeOK, Places, Phases, Maybe, Owning, Moving, Breaking, Identity, Files,
      PutBack, Return, Restore, ForgetRemoved
<1>14. ASSUME NEW p \in Procs, Unclaim(p)
       PROVE  Identity'
  BY <1>0, <1>14
  DEF TypeOK, Places, Phases, Maybe, Owning, Moving, Breaking, Identity, Files,
      Unclaim, RemoveClaim, Return
<1>15. ASSUME NEW p \in Procs, ReleaseRead(p)
       PROVE  Identity'
  BY <1>0, <1>15
  DEF TypeOK, Places, Phases, Maybe, Owning, Moving, Breaking, Identity, Files,
      ReleaseRead, Return
<1>16. ASSUME NEW p \in Procs, ReleaseRename(p)
       PROVE  Identity'
  BY <1>0, <1>16
  DEF TypeOK, Places, Phases, Maybe, Owning, Moving, Breaking, Identity, Files,
      ReleaseRename, MoveAside, Return
<1>17. ASSUME NEW p \in Procs, ReleaseConfirm(p)
       PROVE  Identity'
  BY <1>0, <1>17
  DEF TypeOK, Places, Phases, Maybe, Owning, Moving, Breaking, Identity, Files,
      ReleaseConfirm, Return, ForgetRemoved
<1>18. ASSUME NEW p \in Procs, FinishUnlocked(p)
       PROVE  Identity'
  BY <1>0, <1>18
  DEF TypeOK, Places, Phases, Maybe, Owning, Moving, Breaking, Identity, Files,
      FinishUnlocked
<1>19. ASSUME NEW p \in Procs, AcquireFails(p)
       PROVE  Identity'
  BY <1>0, <1>19
  DEF TypeOK, Places, Phases, Maybe, Owning, Moving, Breaking, Identity, Files,
      AcquireFails, Fault
<1>20. ASSUME NEW p \in Procs, WriteFails(p)
       PROVE  Identity'
  BY <1>0, <1>20
  DEF TypeOK, Places, Phases, Maybe, Owning, Moving, Breaking, Identity, Files,
      WriteFails, Return, ForgetRemoved, Fault
<1>21. ASSUME NEW p \in Procs, StatFails(p)
       PROVE  Identity'
  BY <1>0, <1>21
  DEF TypeOK, Places, Phases, Maybe, Owning, Moving, Breaking, Identity, Files,
      StatFails, Fault
<1>22. ASSUME NEW p \in Procs, ClaimUnavailable(p)
       PROVE  Identity'
  BY <1>0, <1>22
  DEF TypeOK, Places, Phases, Maybe, Owning, Moving, Breaking, Identity, Files,
      ClaimUnavailable, Fault
<1>23. ASSUME NEW p \in Procs, CheckFails(p)
       PROVE  Identity'
  BY <1>0, <1>23
  DEF TypeOK, Places, Phases, Maybe, Owning, Moving, Breaking, Identity, Files,
      CheckFails, Fault
<1>24. ASSUME NEW p \in Procs, ConfirmFails(p)
       PROVE  Identity'
  BY <1>0, <1>24
  DEF TypeOK, Places, Phases, Maybe, Owning, Moving, Breaking, Identity, Files,
      ConfirmFails, Fault
<1>25. ASSUME NEW p \in Procs, PutBackReplaces(p)
       PROVE  Identity'
  BY <1>0, <1>25
  DEF TypeOK, Places, Phases, Maybe, Owning, Moving, Breaking, Identity, Files,
      PutBackReplaces, Return, ForgetRemoved, Fault
<1>26. ASSUME NEW p \in Procs, ReleaseFails(p)
       PROVE  Identity'
  BY <1>0, <1>26
  DEF TypeOK, Places, Phases, Maybe, Owning, Moving, Breaking, Identity, Files,
      ReleaseFails, Return, Fault
<1>27. ASSUME NEW p \in Procs, Crash(p)
       PROVE  Identity'
  BY <1>0, <1>27
  DEF TypeOK, Places, Phases, Maybe, Owning, Moving, Breaking, Identity, Files,
      Crash, Return, Fault
<1>28. ASSUME AgeLock
       PROVE  Identity'
  BY <1>0, <1>28
  DEF TypeOK, Places, Phases, Maybe, Owning, Moving, Breaking, Identity, Files,
      AgeLock
<1>29. ASSUME AgeClaim
       PROVE  Identity'
  BY <1>0, <1>29
  DEF TypeOK, Places, Phases, Maybe, Owning, Moving, Breaking, Identity, Files,
      AgeClaim
<1>30. CASE UNCHANGED vars
  BY <1>0, <1>30
  DEF TypeOK, Places, Phases, Maybe, Owning, Moving, Breaking, Identity, Files,
      vars
<1> QED
  BY <1>1, <1>2, <1>3, <1>4, <1>5, <1>6, <1>7, <1>8, <1>9, <1>10,
     <1>11, <1>12, <1>13, <1>14, <1>15, <1>16, <1>17, <1>18, <1>19, <1>20,
     <1>21, <1>22, <1>23, <1>24, <1>25, <1>26, <1>27, <1>28, <1>29, <1>30
  DEF Next, Step, Failure

\* A phantom stays nobody's.
LEMMA NextJudgement == IInv /\ [Next]_vars => Judgement'
<1> SUFFICES ASSUME IInv, [Next]_vars
             PROVE  Judgement'
  OBVIOUS
<1> USE NoneAssumption DEF fileVars, claimVars, breakVars, At, Goto
<1>0. /\ TypeOK /\ Identity /\ Judgement /\ Serial /\ Guarded
      /\ Locations /\ Evidence
  BY DEF IInv
<1>1. ASSUME NEW p \in Procs, Acquire(p)
      PROVE  Judgement'
  BY <1>0, <1>1
  DEF TypeOK, Places, Phases, Maybe, Owning, Moving, Breaking, Identity,
      Judgement, Claiming, Acquire, CreateFile, Fresh
<1>2. ASSUME NEW p \in Procs, InspectPhantom(p)
      PROVE  Judgement'
  BY <1>0, <1>2
  DEF TypeOK, Places, Phases, Maybe, Owning, Moving, Breaking, Identity,
      Judgement, Claiming, InspectPhantom, Token
<1>3. ASSUME NEW p \in Procs, WriteToken(p)
      PROVE  Judgement'
  BY <1>0, <1>3
  DEF TypeOK, Places, Phases, Maybe, Owning, Moving, Breaking, Identity,
      Judgement, Claiming, WriteToken
<1>4. ASSUME NEW p \in Procs, Stat(p)
      PROVE  Judgement'
  BY <1>0, <1>4
  DEF TypeOK, Places, Phases, Maybe, Owning, Moving, Breaking, Identity,
      Judgement, Claiming, Stat
<1>5. ASSUME NEW p \in Procs, CreateAgain(p)
      PROVE  Judgement'
  BY <1>0, <1>5
  DEF TypeOK, Places, Phases, Maybe, Owning, Moving, Breaking, Identity,
      Judgement, Claiming, CreateAgain, CreateFile, Fresh, Return
<1>6. ASSUME NEW p \in Procs, CreateClaim(p)
      PROVE  Judgement'
  BY <1>0, <1>6
  DEF TypeOK, Places, Phases, Maybe, Owning, Moving, Breaking, Identity,
      Judgement, Claiming, CreateClaim, Return
<1>7. ASSUME NEW p \in Procs, ClaimStat(p)
      PROVE  Judgement'
  BY <1>0, <1>7
  DEF TypeOK, Places, Phases, Maybe, Owning, Moving, Breaking, Identity,
      Judgement, Claiming, ClaimStat, Return
<1>8. ASSUME NEW p \in Procs, ClaimRecheck(p)
      PROVE  Judgement'
  BY <1>0, <1>8
  DEF TypeOK, Places, Phases, Maybe, Owning, Moving, Breaking, Identity,
      Judgement, Claiming, ClaimRecheck, Return
<1>9. ASSUME NEW p \in Procs, ClaimUnlink(p)
      PROVE  Judgement'
  BY <1>0, <1>9
  DEF TypeOK, Places, Phases, Maybe, Owning, Moving, Breaking, Identity,
      Judgement, Claiming, ClaimUnlink, RemoveClaim
<1>10. ASSUME NEW p \in Procs, Check(p)
       PROVE  Judgement'
  BY <1>0, <1>10
  DEF TypeOK, Places, Phases, Maybe, Owning, Moving, Breaking, Identity,
      Judgement, Claiming, Check, StillBreakable, Token
<1>11. ASSUME NEW p \in Procs, BreakRename(p)
       PROVE  Judgement'
  BY <1>0, <1>11
  DEF TypeOK, Places, Phases, Maybe, Owning, Moving, Breaking, Identity,
      Judgement, Claiming, BreakRename, MoveAside
<1>12. ASSUME NEW p \in Procs, Confirm(p)
       PROVE  Judgement'
  BY <1>0, <1>12
  DEF TypeOK, Places, Phases, Maybe, Owning, Moving, Breaking, Identity,
      Judgement, Claiming, Confirm, Confirmed, ForgetRemoved, Files
<1>13. ASSUME NEW p \in Procs, PutBack(p)
       PROVE  Judgement'
  BY <1>0, <1>13
  DEF TypeOK, Places, Phases, Maybe, Owning, Moving, Breaking, Identity,
      Judgement, Claiming, PutBack, Return, Restore, ForgetRemoved, Files
<1>14. ASSUME NEW p \in Procs, Unclaim(p)
       PROVE  Judgement'
  BY <1>0, <1>14
  DEF TypeOK, Places, Phases, Maybe, Owning, Moving, Breaking, Identity,
      Judgement, Claiming, Unclaim, RemoveClaim, Return
<1>15. ASSUME NEW p \in Procs, ReleaseRead(p)
       PROVE  Judgement'
  BY <1>0, <1>15
  DEF TypeOK, Places, Phases, Maybe, Owning, Moving, Breaking, Identity,
      Judgement, Claiming, ReleaseRead, Return
<1>16. ASSUME NEW p \in Procs, ReleaseRename(p)
       PROVE  Judgement'
  BY <1>0, <1>16
  DEF TypeOK, Places, Phases, Maybe, Owning, Moving, Breaking, Identity,
      Judgement, Claiming, ReleaseRename, MoveAside, Return
<1>17. ASSUME NEW p \in Procs, ReleaseConfirm(p)
       PROVE  Judgement'
  BY <1>0, <1>17
  DEF TypeOK, Places, Phases, Maybe, Owning, Moving, Breaking, Identity,
      Judgement, Claiming, ReleaseConfirm, Return, ForgetRemoved, Files
<1>18. ASSUME NEW p \in Procs, FinishUnlocked(p)
       PROVE  Judgement'
  BY <1>0, <1>18
  DEF TypeOK, Places, Phases, Maybe, Owning, Moving, Breaking, Identity,
      Judgement, Claiming, FinishUnlocked
<1>19. ASSUME NEW p \in Procs, AcquireFails(p)
       PROVE  Judgement'
  BY <1>0, <1>19
  DEF TypeOK, Places, Phases, Maybe, Owning, Moving, Breaking, Identity,
      Judgement, Claiming, AcquireFails, Fault
<1>20. ASSUME NEW p \in Procs, WriteFails(p)
       PROVE  Judgement'
  BY <1>0, <1>20
  DEF TypeOK, Places, Phases, Maybe, Owning, Moving, Breaking, Identity,
      Judgement, Claiming, WriteFails, Return, ForgetRemoved, Files, Fault
<1>21. ASSUME NEW p \in Procs, StatFails(p)
       PROVE  Judgement'
  BY <1>0, <1>21
  DEF TypeOK, Places, Phases, Maybe, Owning, Moving, Breaking, Identity,
      Judgement, Claiming, StatFails, Fault
<1>22. ASSUME NEW p \in Procs, ClaimUnavailable(p)
       PROVE  Judgement'
  BY <1>0, <1>22
  DEF TypeOK, Places, Phases, Maybe, Owning, Moving, Breaking, Identity,
      Judgement, Claiming, ClaimUnavailable, Fault
<1>23. ASSUME NEW p \in Procs, CheckFails(p)
       PROVE  Judgement'
  BY <1>0, <1>23
  DEF TypeOK, Places, Phases, Maybe, Owning, Moving, Breaking, Identity,
      Judgement, Claiming, CheckFails, Fault
<1>24. ASSUME NEW p \in Procs, ConfirmFails(p)
       PROVE  Judgement'
  BY <1>0, <1>24
  DEF TypeOK, Places, Phases, Maybe, Owning, Moving, Breaking, Identity,
      Judgement, Claiming, ConfirmFails, Fault
<1>25. ASSUME NEW p \in Procs, PutBackReplaces(p)
       PROVE  Judgement'
  BY <1>0, <1>25
  DEF TypeOK, Places, Phases, Maybe, Owning, Moving, Breaking, Identity,
      Judgement, Claiming, PutBackReplaces, Return, ForgetRemoved, Files,
      Fault
<1>26. ASSUME NEW p \in Procs, ReleaseFails(p)
       PROVE  Judgement'
  BY <1>0, <1>26
  DEF TypeOK, Places, Phases, Maybe, Owning, Moving, Breaking, Identity,
      Judgement, Claiming, ReleaseFails, Return, Fault
<1>27. ASSUME NEW p \in Procs, Crash(p)
       PROVE  Judgement'
  BY <1>0, <1>27
  DEF TypeOK, Places, Phases, Maybe, Owning, Moving, Breaking, Identity,
      Judgement, Claiming, Crash, Return, Files, Fault
<1>28. ASSUME AgeLock
       PROVE  Judgement'
  BY <1>0, <1>28
  DEF TypeOK, Places, Phases, Maybe, Owning, Moving, Breaking, Identity,
      Judgement, Claiming, AgeLock
<1>29. ASSUME AgeClaim
       PROVE  Judgement'
  BY <1>0, <1>29
  DEF TypeOK, Places, Phases, Maybe, Owning, Moving, Breaking, Identity,
      Judgement, Claiming, AgeClaim
<1>30. CASE UNCHANGED vars
  BY <1>0, <1>30
  DEF TypeOK, Places, Phases, Maybe, Owning, Moving, Breaking, Identity,
      Judgement, Claiming, vars
<1> QED
  BY <1>1, <1>2, <1>3, <1>4, <1>5, <1>6, <1>7, <1>8, <1>9, <1>10,
     <1>11, <1>12, <1>13, <1>14, <1>15, <1>16, <1>17, <1>18, <1>19, <1>20,
     <1>21, <1>22, <1>23, <1>24, <1>25, <1>26, <1>27, <1>28, <1>29, <1>30
  DEF Next, Step, Failure

\* The claim has one owner.
LEMMA NextSerial == IInv /\ [Next]_vars => Serial'
<1> SUFFICES ASSUME IInv, [Next]_vars
             PROVE  Serial'
  OBVIOUS
<1> USE NoneAssumption DEF fileVars, claimVars, breakVars, At, Goto
<1>0. /\ TypeOK /\ Identity /\ Judgement /\ Serial /\ Guarded
      /\ Locations /\ Evidence
  BY DEF IInv
<1>1. ASSUME NEW p \in Procs, Acquire(p)
      PROVE  Serial'
  BY <1>0, <1>1
  DEF TypeOK, Places, Phases, Maybe, Breaking, Serial, Acquire, CreateFile,
      Fresh
<1>2. ASSUME NEW p \in Procs, InspectPhantom(p)
      PROVE  Serial'
  BY <1>0, <1>2
  DEF TypeOK, Places, Phases, Maybe, Breaking, Serial, InspectPhantom, Token
<1>3. ASSUME NEW p \in Procs, WriteToken(p)
      PROVE  Serial'
  BY <1>0, <1>3 DEF TypeOK, Places, Phases, Maybe, Breaking, Serial, WriteToken
<1>4. ASSUME NEW p \in Procs, Stat(p)
      PROVE  Serial'
  BY <1>0, <1>4 DEF TypeOK, Places, Phases, Maybe, Breaking, Serial, Stat
<1>5. ASSUME NEW p \in Procs, CreateAgain(p)
      PROVE  Serial'
  BY <1>0, <1>5
  DEF TypeOK, Places, Phases, Maybe, Breaking, Serial, CreateAgain, CreateFile,
      Fresh, Return
<1>6. ASSUME NEW p \in Procs, CreateClaim(p)
      PROVE  Serial'
  BY <1>0, <1>6
  DEF TypeOK, Places, Phases, Maybe, Breaking, Serial, CreateClaim, Return
<1>7. ASSUME NEW p \in Procs, ClaimStat(p)
      PROVE  Serial'
  BY <1>0, <1>7
  DEF TypeOK, Places, Phases, Maybe, Breaking, Serial, ClaimStat, Return
<1>8. ASSUME NEW p \in Procs, ClaimRecheck(p)
      PROVE  Serial'
  BY <1>0, <1>8
  DEF TypeOK, Places, Phases, Maybe, Breaking, Serial, ClaimRecheck, Return
<1>9. ASSUME NEW p \in Procs, ClaimUnlink(p)
      PROVE  Serial'
  BY <1>0, <1>9
  DEF TypeOK, Places, Phases, Maybe, Breaking, Serial, ClaimUnlink,
      RemoveClaim
<1>10. ASSUME NEW p \in Procs, Check(p)
       PROVE  Serial'
  BY <1>0, <1>10
  DEF TypeOK, Places, Phases, Maybe, Breaking, Serial, Check, StillBreakable,
      Token
<1>11. ASSUME NEW p \in Procs, BreakRename(p)
       PROVE  Serial'
  BY <1>0, <1>11
  DEF TypeOK, Places, Phases, Maybe, Breaking, Serial, BreakRename, MoveAside
<1>12. ASSUME NEW p \in Procs, Confirm(p)
       PROVE  Serial'
  BY <1>0, <1>12
  DEF TypeOK, Places, Phases, Maybe, Breaking, Serial, Confirm, Confirmed,
      ForgetRemoved, Files
<1>13. ASSUME NEW p \in Procs, PutBack(p)
       PROVE  Serial'
  BY <1>0, <1>13
  DEF TypeOK, Places, Phases, Maybe, Breaking, Serial, PutBack, Return,
      Restore, ForgetRemoved, Files
<1>14. ASSUME NEW p \in Procs, Unclaim(p)
       PROVE  Serial'
  BY <1>0, <1>14
  DEF TypeOK, Places, Phases, Maybe, Breaking, Serial, Unclaim, RemoveClaim,
      Return
<1>15. ASSUME NEW p \in Procs, ReleaseRead(p)
       PROVE  Serial'
  BY <1>0, <1>15
  DEF TypeOK, Places, Phases, Maybe, Breaking, Serial, ReleaseRead, Return
<1>16. ASSUME NEW p \in Procs, ReleaseRename(p)
       PROVE  Serial'
  BY <1>0, <1>16
  DEF TypeOK, Places, Phases, Maybe, Breaking, Serial, ReleaseRename,
      MoveAside, Return
<1>17. ASSUME NEW p \in Procs, ReleaseConfirm(p)
       PROVE  Serial'
  BY <1>0, <1>17
  DEF TypeOK, Places, Phases, Maybe, Breaking, Serial, ReleaseConfirm, Return,
      ForgetRemoved, Files
<1>18. ASSUME NEW p \in Procs, FinishUnlocked(p)
       PROVE  Serial'
  BY <1>0, <1>18 DEF TypeOK, Places, Phases, Maybe, Breaking, Serial, FinishUnlocked
<1>19. ASSUME NEW p \in Procs, AcquireFails(p)
       PROVE  Serial'
  BY <1>0, <1>19
  DEF TypeOK, Places, Phases, Maybe, Breaking, Serial, AcquireFails, Fault
<1>20. ASSUME NEW p \in Procs, WriteFails(p)
       PROVE  Serial'
  BY <1>0, <1>20
  DEF TypeOK, Places, Phases, Maybe, Breaking, Serial, WriteFails, Return,
      ForgetRemoved, Files, Fault
<1>21. ASSUME NEW p \in Procs, StatFails(p)
       PROVE  Serial'
  BY <1>0, <1>21
  DEF TypeOK, Places, Phases, Maybe, Breaking, Serial, StatFails, Fault
<1>22. ASSUME NEW p \in Procs, ClaimUnavailable(p)
       PROVE  Serial'
  BY <1>0, <1>22
  DEF TypeOK, Places, Phases, Maybe, Breaking, Serial, ClaimUnavailable, Fault
<1>23. ASSUME NEW p \in Procs, CheckFails(p)
       PROVE  Serial'
  BY <1>0, <1>23
  DEF TypeOK, Places, Phases, Maybe, Breaking, Serial, CheckFails, Fault
<1>24. ASSUME NEW p \in Procs, ConfirmFails(p)
       PROVE  Serial'
  BY <1>0, <1>24
  DEF TypeOK, Places, Phases, Maybe, Breaking, Serial, ConfirmFails, Fault
<1>25. ASSUME NEW p \in Procs, PutBackReplaces(p)
       PROVE  Serial'
  BY <1>0, <1>25
  DEF TypeOK, Places, Phases, Maybe, Breaking, Serial, PutBackReplaces, Return,
      ForgetRemoved, Files, Fault
<1>26. ASSUME NEW p \in Procs, ReleaseFails(p)
       PROVE  Serial'
  BY <1>0, <1>26
  DEF TypeOK, Places, Phases, Maybe, Breaking, Serial, ReleaseFails, Return,
      Fault
<1>27. ASSUME NEW p \in Procs, Crash(p)
       PROVE  Serial'
  BY <1>0, <1>27
  DEF TypeOK, Places, Phases, Maybe, Breaking, Serial, Crash, Return, Files,
      Fault
<1>28. ASSUME AgeLock
       PROVE  Serial'
  BY <1>0, <1>28 DEF TypeOK, Places, Phases, Maybe, Breaking, Serial, AgeLock
<1>29. ASSUME AgeClaim
       PROVE  Serial'
  BY <1>0, <1>29 DEF TypeOK, Places, Phases, Maybe, Breaking, Serial, AgeClaim
<1>30. CASE UNCHANGED vars
  BY <1>0, <1>30 DEF TypeOK, Places, Phases, Maybe, Breaking, Serial, vars
<1> QED
  BY <1>1, <1>2, <1>3, <1>4, <1>5, <1>6, <1>7, <1>8, <1>9, <1>10,
     <1>11, <1>12, <1>13, <1>14, <1>15, <1>16, <1>17, <1>18, <1>19, <1>20,
     <1>21, <1>22, <1>23, <1>24, <1>25, <1>26, <1>27, <1>28, <1>29, <1>30
  DEF Next, Step, Failure

\* The lock file of a holder stays at the path.
LEMMA NextGuarded == IInv /\ [Next]_vars => Guarded'
<1> SUFFICES ASSUME IInv, [Next]_vars
             PROVE  Guarded'
  OBVIOUS
<1> USE NoneAssumption DEF fileVars, claimVars, breakVars, At, Goto
<1>0. /\ TypeOK /\ Identity /\ Judgement /\ Serial /\ Guarded
      /\ Locations /\ Evidence
  BY DEF IInv
<1>1. ASSUME NEW p \in Procs, Acquire(p)
      PROVE  Guarded'
  BY <1>0, <1>1
  DEF TypeOK, Places, Phases, Maybe, Owning, Moving, Breaking, Identity,
      Judgement, Serial, Guarded, Live, Files, Acquire, CreateFile, Fresh
<1>2. ASSUME NEW p \in Procs, InspectPhantom(p)
      PROVE  Guarded'
  BY <1>0, <1>2
  DEF TypeOK, Places, Phases, Maybe, Owning, Moving, Breaking, Identity,
      Judgement, Serial, Guarded, Live, Files, InspectPhantom, Token
<1>3. ASSUME NEW p \in Procs, WriteToken(p)
      PROVE  Guarded'
  BY <1>0, <1>3
  DEF TypeOK, Places, Phases, Maybe, Owning, Moving, Breaking, Identity,
      Judgement, Serial, Guarded, Live, Files, WriteToken
<1>4. ASSUME NEW p \in Procs, Stat(p)
      PROVE  Guarded'
  BY <1>0, <1>4
  DEF TypeOK, Places, Phases, Maybe, Owning, Moving, Breaking, Identity,
      Judgement, Serial, Guarded, Live, Files, Stat
<1>5. ASSUME NEW p \in Procs, CreateAgain(p)
      PROVE  Guarded'
  BY <1>0, <1>5
  DEF TypeOK, Places, Phases, Maybe, Owning, Moving, Breaking, Identity,
      Judgement, Serial, Guarded, Live, Files, CreateAgain, CreateFile, Fresh,
      Return
<1>6. ASSUME NEW p \in Procs, CreateClaim(p)
      PROVE  Guarded'
  BY <1>0, <1>6
  DEF TypeOK, Places, Phases, Maybe, Owning, Moving, Breaking, Identity,
      Judgement, Serial, Guarded, Live, Files, CreateClaim, Return
<1>7. ASSUME NEW p \in Procs, ClaimStat(p)
      PROVE  Guarded'
  BY <1>0, <1>7
  DEF TypeOK, Places, Phases, Maybe, Owning, Moving, Breaking, Identity,
      Judgement, Serial, Guarded, Live, Files, ClaimStat, Return
<1>8. ASSUME NEW p \in Procs, ClaimRecheck(p)
      PROVE  Guarded'
  BY <1>0, <1>8
  DEF TypeOK, Places, Phases, Maybe, Owning, Moving, Breaking, Identity,
      Judgement, Serial, Guarded, Live, Files, ClaimRecheck, Return
<1>9. ASSUME NEW p \in Procs, ClaimUnlink(p)
      PROVE  Guarded'
  BY <1>0, <1>9
  DEF TypeOK, Places, Phases, Maybe, Owning, Moving, Breaking, Identity,
      Judgement, Serial, Guarded, Live, Files, ClaimUnlink, RemoveClaim
<1>10. ASSUME NEW p \in Procs, Check(p)
       PROVE  Guarded'
  BY <1>0, <1>10
  DEF TypeOK, Places, Phases, Maybe, Owning, Moving, Breaking, Identity,
      Judgement, Serial, Guarded, Live, Files, Check, StillBreakable, Token
<1>11. ASSUME NEW p \in Procs, BreakRename(p)
       PROVE  Guarded'
  BY <1>0, <1>11
  DEF TypeOK, Places, Phases, Maybe, Owning, Moving, Breaking, Identity,
      Judgement, Serial, Guarded, Live, Files, BreakRename, MoveAside
<1>12. ASSUME NEW p \in Procs, Confirm(p)
       PROVE  Guarded'
  BY <1>0, <1>12
  DEF TypeOK, Places, Phases, Maybe, Owning, Moving, Breaking, Identity,
      Judgement, Serial, Guarded, Live, Files, Confirm, Confirmed,
      ForgetRemoved
<1>13. ASSUME NEW p \in Procs, PutBack(p)
       PROVE  Guarded'
  BY <1>0, <1>13
  DEF TypeOK, Places, Phases, Maybe, Owning, Moving, Breaking, Identity,
      Judgement, Serial, Guarded, Live, Files, PutBack, Return, Restore,
      ForgetRemoved
<1>14. ASSUME NEW p \in Procs, Unclaim(p)
       PROVE  Guarded'
  BY <1>0, <1>14
  DEF TypeOK, Places, Phases, Maybe, Owning, Moving, Breaking, Identity,
      Judgement, Serial, Guarded, Live, Files, Unclaim, RemoveClaim, Return
<1>15. ASSUME NEW p \in Procs, ReleaseRead(p)
       PROVE  Guarded'
  BY <1>0, <1>15
  DEF TypeOK, Places, Phases, Maybe, Owning, Moving, Breaking, Identity,
      Judgement, Serial, Guarded, Live, Files, ReleaseRead, Return
<1>16. ASSUME NEW p \in Procs, ReleaseRename(p)
       PROVE  Guarded'
  BY <1>0, <1>16
  DEF TypeOK, Places, Phases, Maybe, Owning, Moving, Breaking, Identity,
      Judgement, Serial, Guarded, Live, Files, ReleaseRename, MoveAside,
      Return
<1>17. ASSUME NEW p \in Procs, ReleaseConfirm(p)
       PROVE  Guarded'
  BY <1>0, <1>17
  DEF TypeOK, Places, Phases, Maybe, Owning, Moving, Breaking, Identity,
      Judgement, Serial, Guarded, Live, Files, ReleaseConfirm, Return,
      ForgetRemoved
<1>18. ASSUME NEW p \in Procs, FinishUnlocked(p)
       PROVE  Guarded'
  BY <1>0, <1>18
  DEF TypeOK, Places, Phases, Maybe, Owning, Moving, Breaking, Identity,
      Judgement, Serial, Guarded, Live, Files, FinishUnlocked
<1>19. ASSUME NEW p \in Procs, AcquireFails(p)
       PROVE  Guarded'
  BY <1>0, <1>19
  DEF TypeOK, Places, Phases, Maybe, Owning, Moving, Breaking, Identity,
      Judgement, Serial, Guarded, Live, Files, AcquireFails, Fault
<1>20. ASSUME NEW p \in Procs, WriteFails(p)
       PROVE  Guarded'
  BY <1>0, <1>20
  DEF TypeOK, Places, Phases, Maybe, Owning, Moving, Breaking, Identity,
      Judgement, Serial, Guarded, Live, Files, WriteFails, Return,
      ForgetRemoved, Fault
<1>21. ASSUME NEW p \in Procs, StatFails(p)
       PROVE  Guarded'
  BY <1>0, <1>21
  DEF TypeOK, Places, Phases, Maybe, Owning, Moving, Breaking, Identity,
      Judgement, Serial, Guarded, Live, Files, StatFails, Fault
<1>22. ASSUME NEW p \in Procs, ClaimUnavailable(p)
       PROVE  Guarded'
  BY <1>0, <1>22
  DEF TypeOK, Places, Phases, Maybe, Owning, Moving, Breaking, Identity,
      Judgement, Serial, Guarded, Live, Files, ClaimUnavailable, Fault
<1>23. ASSUME NEW p \in Procs, CheckFails(p)
       PROVE  Guarded'
  BY <1>0, <1>23
  DEF TypeOK, Places, Phases, Maybe, Owning, Moving, Breaking, Identity,
      Judgement, Serial, Guarded, Live, Files, CheckFails, Fault
<1>24. ASSUME NEW p \in Procs, ConfirmFails(p)
       PROVE  Guarded'
  BY <1>0, <1>24
  DEF TypeOK, Places, Phases, Maybe, Owning, Moving, Breaking, Identity,
      Judgement, Serial, Guarded, Live, Files, ConfirmFails, Fault
<1>25. ASSUME NEW p \in Procs, PutBackReplaces(p)
       PROVE  Guarded'
  BY <1>0, <1>25
  DEF TypeOK, Places, Phases, Maybe, Owning, Moving, Breaking, Identity,
      Judgement, Serial, Guarded, Live, Files, PutBackReplaces, Return,
      ForgetRemoved, Fault
<1>26. ASSUME NEW p \in Procs, ReleaseFails(p)
       PROVE  Guarded'
  BY <1>0, <1>26
  DEF TypeOK, Places, Phases, Maybe, Owning, Moving, Breaking, Identity,
      Judgement, Serial, Guarded, Live, Files, ReleaseFails, Return, Fault
<1>27. ASSUME NEW p \in Procs, Crash(p)
       PROVE  Guarded'
  BY <1>0, <1>27
  DEF TypeOK, Places, Phases, Maybe, Owning, Moving, Breaking, Identity,
      Judgement, Serial, Guarded, Live, Files, Crash, Return, Fault
<1>28. ASSUME AgeLock
       PROVE  Guarded'
  BY <1>0, <1>28
  DEF TypeOK, Places, Phases, Maybe, Owning, Moving, Breaking, Identity,
      Judgement, Serial, Guarded, Live, Files, AgeLock
<1>29. ASSUME AgeClaim
       PROVE  Guarded'
  BY <1>0, <1>29
  DEF TypeOK, Places, Phases, Maybe, Owning, Moving, Breaking, Identity,
      Judgement, Serial, Guarded, Live, Files, AgeClaim
<1>30. CASE UNCHANGED vars
  BY <1>0, <1>30
  DEF TypeOK, Places, Phases, Maybe, Owning, Moving, Breaking, Identity,
      Judgement, Serial, Guarded, Live, Files, vars
<1> QED
  BY <1>1, <1>2, <1>3, <1>4, <1>5, <1>6, <1>7, <1>8, <1>9, <1>10,
     <1>11, <1>12, <1>13, <1>14, <1>15, <1>16, <1>17, <1>18, <1>19, <1>20,
     <1>21, <1>22, <1>23, <1>24, <1>25, <1>26, <1>27, <1>28, <1>29, <1>30
  DEF Next, Step, Failure

\* No lock file is in two places.
LEMMA NextLocations == IInv /\ [Next]_vars => Locations'
<1> SUFFICES ASSUME IInv, [Next]_vars
             PROVE  Locations'
  OBVIOUS
<1> USE NoneAssumption DEF fileVars, claimVars, breakVars, At, Goto
<1>0. /\ TypeOK /\ Identity /\ Judgement /\ Serial /\ Guarded
      /\ Locations /\ Evidence
  BY DEF IInv
<1>1. ASSUME NEW p \in Procs, Acquire(p)
      PROVE  Locations'
  BY <1>0, <1>1
  DEF TypeOK, Places, Phases, Maybe, Owning, Moving, Breaking, Locations,
      Acquire, CreateFile, Fresh
<1>2. ASSUME NEW p \in Procs, InspectPhantom(p)
      PROVE  Locations'
  BY <1>0, <1>2
  DEF TypeOK, Places, Phases, Maybe, Owning, Moving, Breaking, Locations,
      InspectPhantom, Token
<1>3. ASSUME NEW p \in Procs, WriteToken(p)
      PROVE  Locations'
  BY <1>0, <1>3
  DEF TypeOK, Places, Phases, Maybe, Owning, Moving, Breaking, Locations,
      WriteToken
<1>4. ASSUME NEW p \in Procs, Stat(p)
      PROVE  Locations'
  BY <1>0, <1>4
  DEF TypeOK, Places, Phases, Maybe, Owning, Moving, Breaking, Locations, Stat
<1>5. ASSUME NEW p \in Procs, CreateAgain(p)
      PROVE  Locations'
  BY <1>0, <1>5
  DEF TypeOK, Places, Phases, Maybe, Owning, Moving, Breaking, Locations,
      CreateAgain, CreateFile, Fresh, Return
<1>6. ASSUME NEW p \in Procs, CreateClaim(p)
      PROVE  Locations'
  BY <1>0, <1>6
  DEF TypeOK, Places, Phases, Maybe, Owning, Moving, Breaking, Locations,
      CreateClaim, Return
<1>7. ASSUME NEW p \in Procs, ClaimStat(p)
      PROVE  Locations'
  BY <1>0, <1>7
  DEF TypeOK, Places, Phases, Maybe, Owning, Moving, Breaking, Locations,
      ClaimStat, Return
<1>8. ASSUME NEW p \in Procs, ClaimRecheck(p)
      PROVE  Locations'
  BY <1>0, <1>8
  DEF TypeOK, Places, Phases, Maybe, Owning, Moving, Breaking, Locations,
      ClaimRecheck, Return
<1>9. ASSUME NEW p \in Procs, ClaimUnlink(p)
      PROVE  Locations'
  BY <1>0, <1>9
  DEF TypeOK, Places, Phases, Maybe, Owning, Moving, Breaking, Locations,
      ClaimUnlink, RemoveClaim
<1>10. ASSUME NEW p \in Procs, Check(p)
       PROVE  Locations'
  BY <1>0, <1>10
  DEF TypeOK, Places, Phases, Maybe, Owning, Moving, Breaking, Locations,
      Check, StillBreakable, Token
<1>11. ASSUME NEW p \in Procs, BreakRename(p)
       PROVE  Locations'
  BY <1>0, <1>11
  DEF TypeOK, Places, Phases, Maybe, Owning, Moving, Breaking, Locations,
      BreakRename, MoveAside
<1>12. ASSUME NEW p \in Procs, Confirm(p)
       PROVE  Locations'
  BY <1>0, <1>12
  DEF TypeOK, Places, Phases, Maybe, Owning, Moving, Breaking, Locations,
      Confirm, Confirmed, ForgetRemoved, Files
<1>13. ASSUME NEW p \in Procs, PutBack(p)
       PROVE  Locations'
  BY <1>0, <1>13
  DEF TypeOK, Places, Phases, Maybe, Owning, Moving, Breaking, Locations,
      PutBack, Return, Restore, ForgetRemoved, Files
<1>14. ASSUME NEW p \in Procs, Unclaim(p)
       PROVE  Locations'
  BY <1>0, <1>14
  DEF TypeOK, Places, Phases, Maybe, Owning, Moving, Breaking, Locations,
      Unclaim, RemoveClaim, Return
<1>15. ASSUME NEW p \in Procs, ReleaseRead(p)
       PROVE  Locations'
  BY <1>0, <1>15
  DEF TypeOK, Places, Phases, Maybe, Owning, Moving, Breaking, Locations,
      ReleaseRead, Return
<1>16. ASSUME NEW p \in Procs, ReleaseRename(p)
       PROVE  Locations'
  BY <1>0, <1>16
  DEF TypeOK, Places, Phases, Maybe, Owning, Moving, Breaking, Locations,
      ReleaseRename, MoveAside, Return
<1>17. ASSUME NEW p \in Procs, ReleaseConfirm(p)
       PROVE  Locations'
  BY <1>0, <1>17
  DEF TypeOK, Places, Phases, Maybe, Owning, Moving, Breaking, Locations,
      ReleaseConfirm, Return, ForgetRemoved, Files
<1>18. ASSUME NEW p \in Procs, FinishUnlocked(p)
       PROVE  Locations'
  BY <1>0, <1>18
  DEF TypeOK, Places, Phases, Maybe, Owning, Moving, Breaking, Locations,
      FinishUnlocked
<1>19. ASSUME NEW p \in Procs, AcquireFails(p)
       PROVE  Locations'
  BY <1>0, <1>19
  DEF TypeOK, Places, Phases, Maybe, Owning, Moving, Breaking, Locations,
      AcquireFails, Fault
<1>20. ASSUME NEW p \in Procs, WriteFails(p)
       PROVE  Locations'
  BY <1>0, <1>20
  DEF TypeOK, Places, Phases, Maybe, Owning, Moving, Breaking, Locations,
      WriteFails, Return, ForgetRemoved, Files, Fault
<1>21. ASSUME NEW p \in Procs, StatFails(p)
       PROVE  Locations'
  BY <1>0, <1>21
  DEF TypeOK, Places, Phases, Maybe, Owning, Moving, Breaking, Locations,
      StatFails, Fault
<1>22. ASSUME NEW p \in Procs, ClaimUnavailable(p)
       PROVE  Locations'
  BY <1>0, <1>22
  DEF TypeOK, Places, Phases, Maybe, Owning, Moving, Breaking, Locations,
      ClaimUnavailable, Fault
<1>23. ASSUME NEW p \in Procs, CheckFails(p)
       PROVE  Locations'
  BY <1>0, <1>23
  DEF TypeOK, Places, Phases, Maybe, Owning, Moving, Breaking, Locations,
      CheckFails, Fault
<1>24. ASSUME NEW p \in Procs, ConfirmFails(p)
       PROVE  Locations'
  BY <1>0, <1>24
  DEF TypeOK, Places, Phases, Maybe, Owning, Moving, Breaking, Locations,
      ConfirmFails, Fault
<1>25. ASSUME NEW p \in Procs, PutBackReplaces(p)
       PROVE  Locations'
  BY <1>0, <1>25
  DEF TypeOK, Places, Phases, Maybe, Owning, Moving, Breaking, Locations,
      PutBackReplaces, Return, ForgetRemoved, Files, Fault
<1>26. ASSUME NEW p \in Procs, ReleaseFails(p)
       PROVE  Locations'
  BY <1>0, <1>26
  DEF TypeOK, Places, Phases, Maybe, Owning, Moving, Breaking, Locations,
      ReleaseFails, Return, Fault
<1>27. ASSUME NEW p \in Procs, Crash(p)
       PROVE  Locations'
  BY <1>0, <1>27
  DEF TypeOK, Places, Phases, Maybe, Owning, Moving, Breaking, Locations,
      Crash, Return, Files, Fault
<1>28. ASSUME AgeLock
       PROVE  Locations'
  BY <1>0, <1>28
  DEF TypeOK, Places, Phases, Maybe, Owning, Moving, Breaking, Locations,
      AgeLock
<1>29. ASSUME AgeClaim
       PROVE  Locations'
  BY <1>0, <1>29
  DEF TypeOK, Places, Phases, Maybe, Owning, Moving, Breaking, Locations,
      AgeClaim
<1>30. CASE UNCHANGED vars
  BY <1>0, <1>30
  DEF TypeOK, Places, Phases, Maybe, Owning, Moving, Breaking, Locations, vars
<1> QED
  BY <1>1, <1>2, <1>3, <1>4, <1>5, <1>6, <1>7, <1>8, <1>9, <1>10,
     <1>11, <1>12, <1>13, <1>14, <1>15, <1>16, <1>17, <1>18, <1>19, <1>20,
     <1>21, <1>22, <1>23, <1>24, <1>25, <1>26, <1>27, <1>28, <1>29, <1>30
  DEF Next, Step, Failure

\* A judgement stays true of its file.
LEMMA NextEvidence == IInv /\ [Next]_vars => Evidence'
<1> SUFFICES ASSUME IInv, [Next]_vars
             PROVE  Evidence'
  OBVIOUS
<1> USE NoneAssumption DEF fileVars, claimVars, breakVars, At, Goto
<1>0. /\ TypeOK /\ Identity /\ Judgement /\ Serial /\ Guarded
      /\ Locations /\ Evidence
  BY DEF IInv
<1>1. ASSUME NEW p \in Procs, Acquire(p)
      PROVE  Evidence'
  BY <1>0, <1>1
  DEF TypeOK, Places, Phases, Maybe, Owning, Moving, Breaking, Identity,
      Locations, Evidence, Files, Acquire, CreateFile, Fresh
<1>2. ASSUME NEW p \in Procs, InspectPhantom(p)
      PROVE  Evidence'
  BY <1>0, <1>2
  DEF TypeOK, Places, Phases, Maybe, Owning, Moving, Breaking, Identity,
      Locations, Evidence, Files, InspectPhantom, Token
<1>3. ASSUME NEW p \in Procs, WriteToken(p)
      PROVE  Evidence'
  BY <1>0, <1>3
  DEF TypeOK, Places, Phases, Maybe, Owning, Moving, Breaking, Identity,
      Locations, Evidence, Files, WriteToken
<1>4. ASSUME NEW p \in Procs, Stat(p)
      PROVE  Evidence'
  BY <1>0, <1>4
  DEF TypeOK, Places, Phases, Maybe, Owning, Moving, Breaking, Identity,
      Locations, Evidence, Files, Stat
<1>5. ASSUME NEW p \in Procs, CreateAgain(p)
      PROVE  Evidence'
  BY <1>0, <1>5
  DEF TypeOK, Places, Phases, Maybe, Owning, Moving, Breaking, Identity,
      Locations, Evidence, Files, CreateAgain, CreateFile, Fresh, Return
<1>6. ASSUME NEW p \in Procs, CreateClaim(p)
      PROVE  Evidence'
  BY <1>0, <1>6
  DEF TypeOK, Places, Phases, Maybe, Owning, Moving, Breaking, Identity,
      Locations, Evidence, Files, CreateClaim, Return
<1>7. ASSUME NEW p \in Procs, ClaimStat(p)
      PROVE  Evidence'
  BY <1>0, <1>7
  DEF TypeOK, Places, Phases, Maybe, Owning, Moving, Breaking, Identity,
      Locations, Evidence, Files, ClaimStat, Return
<1>8. ASSUME NEW p \in Procs, ClaimRecheck(p)
      PROVE  Evidence'
  BY <1>0, <1>8
  DEF TypeOK, Places, Phases, Maybe, Owning, Moving, Breaking, Identity,
      Locations, Evidence, Files, ClaimRecheck, Return
<1>9. ASSUME NEW p \in Procs, ClaimUnlink(p)
      PROVE  Evidence'
  BY <1>0, <1>9
  DEF TypeOK, Places, Phases, Maybe, Owning, Moving, Breaking, Identity,
      Locations, Evidence, Files, ClaimUnlink, RemoveClaim
<1>10. ASSUME NEW p \in Procs, Check(p)
       PROVE  Evidence'
  BY <1>0, <1>10
  DEF TypeOK, Places, Phases, Maybe, Owning, Moving, Breaking, Identity,
      Locations, Evidence, Files, Check, StillBreakable, Token
<1>11. ASSUME NEW p \in Procs, BreakRename(p)
       PROVE  Evidence'
  BY <1>0, <1>11
  DEF TypeOK, Places, Phases, Maybe, Owning, Moving, Breaking, Identity,
      Locations, Evidence, Files, BreakRename, MoveAside
<1>12. ASSUME NEW p \in Procs, Confirm(p)
       PROVE  Evidence'
  BY <1>0, <1>12
  DEF TypeOK, Places, Phases, Maybe, Owning, Moving, Breaking, Identity,
      Locations, Evidence, Files, Confirm, Confirmed, ForgetRemoved
<1>13. ASSUME NEW p \in Procs, PutBack(p)
       PROVE  Evidence'
  BY <1>0, <1>13
  DEF TypeOK, Places, Phases, Maybe, Owning, Moving, Breaking, Identity,
      Locations, Evidence, Files, PutBack, Return, Restore, ForgetRemoved
<1>14. ASSUME NEW p \in Procs, Unclaim(p)
       PROVE  Evidence'
  BY <1>0, <1>14
  DEF TypeOK, Places, Phases, Maybe, Owning, Moving, Breaking, Identity,
      Locations, Evidence, Files, Unclaim, RemoveClaim, Return
<1>15. ASSUME NEW p \in Procs, ReleaseRead(p)
       PROVE  Evidence'
  BY <1>0, <1>15
  DEF TypeOK, Places, Phases, Maybe, Owning, Moving, Breaking, Identity,
      Locations, Evidence, Files, ReleaseRead, Return
<1>16. ASSUME NEW p \in Procs, ReleaseRename(p)
       PROVE  Evidence'
  BY <1>0, <1>16
  DEF TypeOK, Places, Phases, Maybe, Owning, Moving, Breaking, Identity,
      Locations, Evidence, Files, ReleaseRename, MoveAside, Return
<1>17. ASSUME NEW p \in Procs, ReleaseConfirm(p)
       PROVE  Evidence'
  BY <1>0, <1>17
  DEF TypeOK, Places, Phases, Maybe, Owning, Moving, Breaking, Identity,
      Locations, Evidence, Files, ReleaseConfirm, Return, ForgetRemoved
<1>18. ASSUME NEW p \in Procs, FinishUnlocked(p)
       PROVE  Evidence'
  BY <1>0, <1>18
  DEF TypeOK, Places, Phases, Maybe, Owning, Moving, Breaking, Identity,
      Locations, Evidence, Files, FinishUnlocked
<1>19. ASSUME NEW p \in Procs, AcquireFails(p)
       PROVE  Evidence'
  BY <1>0, <1>19
  DEF TypeOK, Places, Phases, Maybe, Owning, Moving, Breaking, Identity,
      Locations, Evidence, Files, AcquireFails, Fault
<1>20. ASSUME NEW p \in Procs, WriteFails(p)
       PROVE  Evidence'
  BY <1>0, <1>20
  DEF TypeOK, Places, Phases, Maybe, Owning, Moving, Breaking, Identity,
      Locations, Evidence, Files, WriteFails, Return, ForgetRemoved, Fault
<1>21. ASSUME NEW p \in Procs, StatFails(p)
       PROVE  Evidence'
  BY <1>0, <1>21
  DEF TypeOK, Places, Phases, Maybe, Owning, Moving, Breaking, Identity,
      Locations, Evidence, Files, StatFails, Fault
<1>22. ASSUME NEW p \in Procs, ClaimUnavailable(p)
       PROVE  Evidence'
  BY <1>0, <1>22
  DEF TypeOK, Places, Phases, Maybe, Owning, Moving, Breaking, Identity,
      Locations, Evidence, Files, ClaimUnavailable, Fault
<1>23. ASSUME NEW p \in Procs, CheckFails(p)
       PROVE  Evidence'
  BY <1>0, <1>23
  DEF TypeOK, Places, Phases, Maybe, Owning, Moving, Breaking, Identity,
      Locations, Evidence, Files, CheckFails, Fault
<1>24. ASSUME NEW p \in Procs, ConfirmFails(p)
       PROVE  Evidence'
  BY <1>0, <1>24
  DEF TypeOK, Places, Phases, Maybe, Owning, Moving, Breaking, Identity,
      Locations, Evidence, Files, ConfirmFails, Fault
<1>25. ASSUME NEW p \in Procs, PutBackReplaces(p)
       PROVE  Evidence'
  BY <1>0, <1>25
  DEF TypeOK, Places, Phases, Maybe, Owning, Moving, Breaking, Identity,
      Locations, Evidence, Files, PutBackReplaces, Return, ForgetRemoved,
      Fault
<1>26. ASSUME NEW p \in Procs, ReleaseFails(p)
       PROVE  Evidence'
  BY <1>0, <1>26
  DEF TypeOK, Places, Phases, Maybe, Owning, Moving, Breaking, Identity,
      Locations, Evidence, Files, ReleaseFails, Return, Fault
<1>27. ASSUME NEW p \in Procs, Crash(p)
       PROVE  Evidence'
  BY <1>0, <1>27
  DEF TypeOK, Places, Phases, Maybe, Owning, Moving, Breaking, Identity,
      Locations, Evidence, Files, Crash, Return, Fault
<1>28. ASSUME AgeLock
       PROVE  Evidence'
  BY <1>0, <1>28
  DEF TypeOK, Places, Phases, Maybe, Owning, Moving, Breaking, Identity,
      Locations, Evidence, Files, AgeLock
<1>29. ASSUME AgeClaim
       PROVE  Evidence'
  BY <1>0, <1>29
  DEF TypeOK, Places, Phases, Maybe, Owning, Moving, Breaking, Identity,
      Locations, Evidence, Files, AgeClaim
<1>30. CASE UNCHANGED vars
  BY <1>0, <1>30
  DEF TypeOK, Places, Phases, Maybe, Owning, Moving, Breaking, Identity,
      Locations, Evidence, Files, vars
<1> QED
  BY <1>1, <1>2, <1>3, <1>4, <1>5, <1>6, <1>7, <1>8, <1>9, <1>10,
     <1>11, <1>12, <1>13, <1>14, <1>15, <1>16, <1>17, <1>18, <1>19, <1>20,
     <1>21, <1>22, <1>23, <1>24, <1>25, <1>26, <1>27, <1>28, <1>29, <1>30
  DEF Next, Step, Failure

--------------------------------------------------------------------------------

LEMMA NextInv == IInv /\ [Next]_vars => IInv'
  BY NextType, NextIdentity, NextJudgement, NextSerial, NextGuarded,
     NextLocations, NextEvidence DEF IInv

\* The inductive invariant holds in every reachable state.
THEOREM Invariance == Spec => []IInv
<1> QED
  BY InitInv, NextInv, PTL DEF Spec

\* Every variable keeps its type; a process has a lock file, a file aside or
\* the claim only where the code says so.
THEOREM TypeCorrect == Spec => []TypeOK
<1>1. IInv => TypeOK
  BY DEF IInv
<1> QED
  BY <1>1, Invariance, PTL

\* Without a documented window no two processes hold the lock, whatever
\* crashes, breaks of dead holders' locks and failed calls there are.
THEOREM MutualExclusion == Spec => []AtMostOneHolder
<1>1. IInv => AtMostOneHolder
  <2> SUFFICES ASSUME IInv, ~ residual, NEW p \in Procs, NEW q \in Procs,
                      At(p, "held"), At(q, "held")
               PROVE  p = q
    BY DEF AtMostOneHolder
  <2>1. mine[p] = path /\ mine[q] = path /\ mine[p] # None
    BY DEF IInv, Guarded, Live, At, TypeOK, Phases, Owning
  <2> QED
    BY <2>1 DEF IInv, Identity
<1> QED
  BY <1>1, Invariance, PTL

KeptStep ==
  \A p \in Procs :
    /\ At(p, "held") /\ At(p, "held")' /\ faults' = faults
    /\ Kept(mine[p]) /\ ~ Kept(mine[p])'
    => mine[p] \in old \/ path \notin {None, mine[p]}

\* What a step does to the lock file of a holder.
LEMMA NextKept == IInv /\ [Next]_vars => KeptStep
<1> SUFFICES ASSUME IInv, [Next]_vars
             PROVE  KeptStep
  OBVIOUS
<1> USE NoneAssumption DEF fileVars, claimVars, breakVars, At, Goto
<1>0. /\ TypeOK /\ Identity /\ Judgement /\ Serial /\ Guarded
      /\ Locations /\ Evidence
  BY DEF IInv
<1>1. ASSUME NEW p \in Procs, Acquire(p)
      PROVE  KeptStep
  BY <1>0, <1>1
  DEF TypeOK, Places, Phases, Maybe, Owning, Moving, Breaking, KeptStep, Kept,
      Identity, Judgement, Locations, Evidence, Files, Acquire, CreateFile,
      Fresh
<1>2. ASSUME NEW p \in Procs, InspectPhantom(p)
      PROVE  KeptStep
  BY <1>0, <1>2
  DEF TypeOK, Places, Phases, Maybe, Owning, Moving, Breaking, KeptStep, Kept,
      Identity, Judgement, Locations, Evidence, Files, InspectPhantom, Token
<1>3. ASSUME NEW p \in Procs, WriteToken(p)
      PROVE  KeptStep
  BY <1>0, <1>3
  DEF TypeOK, Places, Phases, Maybe, Owning, Moving, Breaking, KeptStep, Kept,
      Identity, Judgement, Locations, Evidence, Files, WriteToken
<1>4. ASSUME NEW p \in Procs, Stat(p)
      PROVE  KeptStep
  BY <1>0, <1>4
  DEF TypeOK, Places, Phases, Maybe, Owning, Moving, Breaking, KeptStep, Kept,
      Identity, Judgement, Locations, Evidence, Files, Stat
<1>5. ASSUME NEW p \in Procs, CreateAgain(p)
      PROVE  KeptStep
  BY <1>0, <1>5
  DEF TypeOK, Places, Phases, Maybe, Owning, Moving, Breaking, KeptStep, Kept,
      Identity, Judgement, Locations, Evidence, Files, CreateAgain, CreateFile,
      Fresh, Return
<1>6. ASSUME NEW p \in Procs, CreateClaim(p)
      PROVE  KeptStep
  BY <1>0, <1>6
  DEF TypeOK, Places, Phases, Maybe, Owning, Moving, Breaking, KeptStep, Kept,
      Identity, Judgement, Locations, Evidence, Files, CreateClaim, Return
<1>7. ASSUME NEW p \in Procs, ClaimStat(p)
      PROVE  KeptStep
  BY <1>0, <1>7
  DEF TypeOK, Places, Phases, Maybe, Owning, Moving, Breaking, KeptStep, Kept,
      Identity, Judgement, Locations, Evidence, Files, ClaimStat, Return
<1>8. ASSUME NEW p \in Procs, ClaimRecheck(p)
      PROVE  KeptStep
  BY <1>0, <1>8
  DEF TypeOK, Places, Phases, Maybe, Owning, Moving, Breaking, KeptStep, Kept,
      Identity, Judgement, Locations, Evidence, Files, ClaimRecheck, Return
<1>9. ASSUME NEW p \in Procs, ClaimUnlink(p)
      PROVE  KeptStep
  BY <1>0, <1>9
  DEF TypeOK, Places, Phases, Maybe, Owning, Moving, Breaking, KeptStep, Kept,
      Identity, Judgement, Locations, Evidence, Files, ClaimUnlink,
      RemoveClaim
<1>10. ASSUME NEW p \in Procs, Check(p)
       PROVE  KeptStep
  BY <1>0, <1>10
  DEF TypeOK, Places, Phases, Maybe, Owning, Moving, Breaking, KeptStep, Kept,
      Identity, Judgement, Locations, Evidence, Files, Check, StillBreakable,
      Token
<1>11. ASSUME NEW p \in Procs, BreakRename(p)
       PROVE  KeptStep
  BY <1>0, <1>11
  DEF TypeOK, Places, Phases, Maybe, Owning, Moving, Breaking, KeptStep, Kept,
      Identity, Judgement, Locations, Evidence, Files, BreakRename, MoveAside
<1>12. ASSUME NEW p \in Procs, Confirm(p)
       PROVE  KeptStep
  <2> SUFFICES ASSUME NEW q \in Procs, At(q, "held"), Kept(mine[q]), ~ Kept(mine[q])'
               PROVE  mine[q] \in old
    BY DEF KeptStep
  <2>1. /\ aside[p] = mine[q] /\ Confirmed(p) /\ aside[p] \in Files
        /\ aside[p] # None /\ mine[q] \notin empty
    BY <1>0, <1>12 DEF TypeOK, Phases, Moving, Kept, Confirm, Evidence, Files
  <2>2. CASE phantom[p]
    BY <1>0, <2>1, <2>2 DEF Confirmed, Token, Judgement
  <2>3. CASE ~ phantom[p]
    BY <1>0, <2>1, <2>3 DEF Confirmed, Evidence
  <2> QED
    BY <2>2, <2>3
<1>13. ASSUME NEW p \in Procs, PutBack(p)
       PROVE  KeptStep
  BY <1>0, <1>13
  DEF TypeOK, Places, Phases, Maybe, Owning, Moving, Breaking, KeptStep, Kept,
      Identity, Judgement, Locations, Evidence, Files, PutBack, Return,
      Restore, ForgetRemoved
<1>14. ASSUME NEW p \in Procs, Unclaim(p)
       PROVE  KeptStep
  BY <1>0, <1>14
  DEF TypeOK, Places, Phases, Maybe, Owning, Moving, Breaking, KeptStep, Kept,
      Identity, Judgement, Locations, Evidence, Files, Unclaim, RemoveClaim,
      Return
<1>15. ASSUME NEW p \in Procs, ReleaseRead(p)
       PROVE  KeptStep
  BY <1>0, <1>15
  DEF TypeOK, Places, Phases, Maybe, Owning, Moving, Breaking, KeptStep, Kept,
      Identity, Judgement, Locations, Evidence, Files, ReleaseRead, Return
<1>16. ASSUME NEW p \in Procs, ReleaseRename(p)
       PROVE  KeptStep
  BY <1>0, <1>16
  DEF TypeOK, Places, Phases, Maybe, Owning, Moving, Breaking, KeptStep, Kept,
      Identity, Judgement, Locations, Evidence, Files, ReleaseRename,
      MoveAside, Return
<1>17. ASSUME NEW p \in Procs, ReleaseConfirm(p)
       PROVE  KeptStep
  BY <1>0, <1>17
  DEF TypeOK, Places, Phases, Maybe, Owning, Moving, Breaking, KeptStep, Kept,
      Identity, Judgement, Locations, Evidence, Files, ReleaseConfirm, Return,
      ForgetRemoved
<1>18. ASSUME NEW p \in Procs, FinishUnlocked(p)
       PROVE  KeptStep
  BY <1>0, <1>18
  DEF TypeOK, Places, Phases, Maybe, Owning, Moving, Breaking, KeptStep, Kept,
      Identity, Judgement, Locations, Evidence, Files, FinishUnlocked
<1>19. ASSUME NEW p \in Procs, AcquireFails(p)
       PROVE  KeptStep
  BY <1>0, <1>19
  DEF TypeOK, Places, Phases, Maybe, Owning, Moving, Breaking, KeptStep, Kept,
      Identity, Judgement, Locations, Evidence, Files, AcquireFails, Fault
<1>20. ASSUME NEW p \in Procs, WriteFails(p)
       PROVE  KeptStep
  BY <1>0, <1>20
  DEF TypeOK, Places, Phases, Maybe, Owning, Moving, Breaking, KeptStep, Kept,
      Identity, Judgement, Locations, Evidence, Files, WriteFails, Return,
      ForgetRemoved, Fault
<1>21. ASSUME NEW p \in Procs, StatFails(p)
       PROVE  KeptStep
  BY <1>0, <1>21
  DEF TypeOK, Places, Phases, Maybe, Owning, Moving, Breaking, KeptStep, Kept,
      Identity, Judgement, Locations, Evidence, Files, StatFails, Fault
<1>22. ASSUME NEW p \in Procs, ClaimUnavailable(p)
       PROVE  KeptStep
  BY <1>0, <1>22
  DEF TypeOK, Places, Phases, Maybe, Owning, Moving, Breaking, KeptStep, Kept,
      Identity, Judgement, Locations, Evidence, Files, ClaimUnavailable, Fault
<1>23. ASSUME NEW p \in Procs, CheckFails(p)
       PROVE  KeptStep
  BY <1>0, <1>23
  DEF TypeOK, Places, Phases, Maybe, Owning, Moving, Breaking, KeptStep, Kept,
      Identity, Judgement, Locations, Evidence, Files, CheckFails, Fault
<1>24. ASSUME NEW p \in Procs, ConfirmFails(p)
       PROVE  KeptStep
  BY <1>0, <1>24
  DEF TypeOK, Places, Phases, Maybe, Owning, Moving, Breaking, KeptStep, Kept,
      Identity, Judgement, Locations, Evidence, Files, ConfirmFails, Fault
<1>25. ASSUME NEW p \in Procs, PutBackReplaces(p)
       PROVE  KeptStep
  BY <1>0, <1>25
  DEF TypeOK, Places, Phases, Maybe, Owning, Moving, Breaking, KeptStep, Kept,
      Identity, Judgement, Locations, Evidence, Files, PutBackReplaces, Return,
      ForgetRemoved, Fault
<1>26. ASSUME NEW p \in Procs, ReleaseFails(p)
       PROVE  KeptStep
  BY <1>0, <1>26
  DEF TypeOK, Places, Phases, Maybe, Owning, Moving, Breaking, KeptStep, Kept,
      Identity, Judgement, Locations, Evidence, Files, ReleaseFails, Return,
      Fault
<1>27. ASSUME NEW p \in Procs, Crash(p)
       PROVE  KeptStep
  BY <1>0, <1>27
  DEF TypeOK, Places, Phases, Maybe, Owning, Moving, Breaking, KeptStep, Kept,
      Identity, Judgement, Locations, Evidence, Files, Crash, Return, Fault
<1>28. ASSUME AgeLock
       PROVE  KeptStep
  BY <1>0, <1>28
  DEF TypeOK, Places, Phases, Maybe, Owning, Moving, Breaking, KeptStep, Kept,
      Identity, Judgement, Locations, Evidence, Files, AgeLock
<1>29. ASSUME AgeClaim
       PROVE  KeptStep
  BY <1>0, <1>29
  DEF TypeOK, Places, Phases, Maybe, Owning, Moving, Breaking, KeptStep, Kept,
      Identity, Judgement, Locations, Evidence, Files, AgeClaim
<1>30. CASE UNCHANGED vars
  BY <1>0, <1>30
  DEF TypeOK, Places, Phases, Maybe, Owning, Moving, Breaking, KeptStep, Kept,
      Identity, Judgement, Locations, Evidence, Files, vars
<1> QED
  BY <1>1, <1>2, <1>3, <1>4, <1>5, <1>6, <1>7, <1>8, <1>9, <1>10,
     <1>11, <1>12, <1>13, <1>14, <1>15, <1>16, <1>17, <1>18, <1>19, <1>20,
     <1>21, <1>22, <1>23, <1>24, <1>25, <1>26, <1>27, <1>28, <1>29, <1>30
  DEF Next, Step, Failure

\* When nothing fails, the lock of a holder is destroyed only if it is
\* over-age or another lock has taken its path.
THEOREM LiveLocksAreKept == Spec => LiveLockKept
<1>1. IInv /\ [Next]_vars => [KeptStep]_vars
  BY NextKept
<1> QED
  BY <1>1, Invariance, PTL DEF Spec, LiveLockKept, KeptStep
================================================================================
