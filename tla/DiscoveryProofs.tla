-------------------------- MODULE DiscoveryProofs --------------------------
(***************************************************************************)
(* What holds of discovery and of the RomMounted hook for every subnet,    *)
(* window and number of mounts: no file and no socket is left open, a      *)
(* mount leaks one buffer at most, the worker sweeps from a whole address  *)
(* only, and the tables the hook rebuilds are whole when it comes back to  *)
(* the game.  The two threads meet in g_cfgHost only, so the invariant is  *)
(* the hook's, the worker's and one fact about the flag that is released   *)
(* between them.                                                           *)
(***************************************************************************)
EXTENDS Discovery, TLAPS

\* Which file the hook can be at, and the file it has open, at each step.
HookPoint ==
  /\ handles = IF gpc \in {"opened", "read"} THEN 1 ELSE 0
  /\ gpc \in {"read", "use", "list", "fill", "profile2", "profile3"} => buffers > 0
  /\ gpc \in {"list", "fill"} => file = Replacements
  /\ gpc \in {"profile2", "profile3"} => file = SeedHash
  /\ gpc \in {"copy", "publish"} => file = ApConfig

\* The buffer the hook holds, and how many it may have left behind: the mounts
\* that are behind their second file.
Held == IF gpc \in {"read", "use", "list", "fill", "profile2", "profile3",
                    "nullName", "nullBuffer"} THEN 1 ELSE 0
Spent == IF gpc = "idle" \/ file = ApConfig THEN mounts ELSE mounts - 1

BufferPoint == buffers <= Spent + Held

\* The flag is released after the last write, and the hook writes before that
\* only: once it is up, the file is not opened again.
FlagPoint ==
  /\ g_cfgHostValid => g_cfgHost = Whole
  /\ file = ApConfig /\ gpc \notin {"idle", "entry"} => ~g_cfgHostValid
  /\ gpc = "publish" => g_cfgHost = Whole

\* How much of the list and of the names is new at each step.  After a fault the
\* list stays as it is.
Listed == \A i \in 1..g_stringListSize : Passed(i)
TablePoint ==
  /\ gpc # "list" /\ ~Faulted => g_stringListSize = Len(g_stringList)
  /\ gpc \notin {"list", "fill"} /\ ~Faulted => Listed
  /\ gpc \notin {"profile2", "profile3"} =>
       profiles[2] = profiles[1] /\ profiles[3] = profiles[1]
  /\ gpc = "profile2" => profiles[1] = mounts
  /\ gpc = "profile3" => profiles[1] = mounts /\ profiles[2] = mounts

\* The socket resolveBridge has, and the copy it sweeps from.
WorkerPoint ==
  /\ fds = IF wpc \in {"loopSend", "loopWait", "loopClose", "sweep", "collect",
                       "sweepClose"} THEN 1 ELSE 0
  /\ cfg_host \in {Unwritten, Whole}
  /\ wpc \in {"sweepOpen", "sweep"} => cfg_host = Whole

IInv == TypeOK /\ HookPoint /\ BufferPoint /\ FlagPoint /\ TablePoint /\ WorkerPoint

USE DEF tables, hostCache, gameVars, counters, network, workerVars,
        Replacements, SeedHash, ApConfig, Unwritten, Partial, Whole

LEMMA HookTypes == IInv /\ (MountRom \/ Unmount \/ RomMounted) => TypeOK'
<1> SUFFICES ASSUME IInv, MountRom \/ Unmount \/ RomMounted PROVE TypeOK'
  OBVIOUS
<1> USE SweepAssumption DEF TypeOK, HookPoint, IInv, HookStep, NextFile, Goto
<1>1. CASE MountRom
  BY <1>1 DEF MountRom
<1>2. CASE Unmount
  BY <1>2 DEF Unmount
<1>3. CASE SkipFile
  BY <1>3 DEF SkipFile
<1>4. CASE OpenFile
  BY <1>4 DEF OpenFile
<1>5. CASE NoBuffer
  BY <1>5 DEF NoBuffer
<1>6. CASE AllocBuffer
  BY <1>6 DEF AllocBuffer
<1>7. CASE ReadFails
  BY <1>7 DEF ReadFails
<1>8. CASE ReadFile
  BY <1>8 DEF ReadFile
<1>9. CASE NoUse
  BY <1>9 DEF NoUse
<1>10. CASE SetListSize
  BY <1>10 DEF SetListSize
<1>11. CASE AllocList
  <2>1. g_stringList' \in Seq(EntryKinds \cup {"written"})
    BY <1>11 DEF AllocList, KindsOfFile, EntryKinds
  <2>2. gpc' = "fill" /\ handles' = handles /\ buffers' = buffers
    BY <1>11 DEF AllocList
  <2>3. UNCHANGED <<file, mounted, mounts, g_stringListSize, profiles, hostCache,
                    workerVars>>
    BY <1>11 DEF AllocList
  <2> HIDE DEF HookStep, NextFile, Goto
  <2> QED
    BY <2>1, <2>2, <2>3
<1>19. CASE AllocListFails \/ FillEntryFails \/ NameIsNull
  <2>1. /\ gpc' \in {"nullBuffer", "nullName"}
        /\ handles' = handles /\ buffers' = buffers
        /\ UNCHANGED <<file, mounted, mounts, tables, hostCache, workerVars>>
    BY <1>19 DEF AllocListFails, FillEntryFails, NameIsNull, AtEntry
  <2> HIDE DEF HookStep, NextFile, Goto
  <2> QED
    BY <2>1
<1>12. CASE FillEntry
  <2>1. g_stringList' \in Seq(EntryKinds \cup {"written"})
    <3>1. PICK i \in DOMAIN g_stringList :
            g_stringList' = [g_stringList EXCEPT ![i] = "written"]
      BY <1>12 DEF FillEntry
    <3> QED
      BY <3>1
  <2>2. gpc' = "fill" /\ handles' = handles /\ buffers' = buffers
    BY <1>12 DEF FillEntry, AtEntry
  <2>3. UNCHANGED <<file, mounted, mounts, g_stringListSize, profiles, hostCache,
                    workerVars>>
    BY <1>12 DEF FillEntry, AtEntry
  <2> HIDE DEF HookStep, NextFile, Goto
  <2> QED
    BY <2>1, <2>2, <2>3
<1>13. CASE ListFilled
  BY <1>13 DEF ListFilled
<1>14. CASE RenameProfile
  <2>1. PICK slot \in 1..3 :
          /\ profiles' = [profiles EXCEPT ![slot] = mounts]
          /\ IF slot = 3 THEN HookStep("profile3", 0, -1) /\ NextFile
             ELSE /\ HookStep(IF slot = 1 THEN "use" ELSE "profile2", 0, 0)
                  /\ Goto(IF slot = 1 THEN "profile2" ELSE "profile3")
    BY <1>14 DEF RenameProfile
  <2>2. profiles' \in [1..3 -> 0..MaxMounts]
    BY <2>1
  <2>3. file = SeedHash /\ UNCHANGED <<g_stringListSize, g_stringList, hostCache>>
    BY <1>14 DEF RenameProfile
  <2>4. /\ gpc' \in {"profile2", "profile3", "idle", "entry"}
        /\ file' \in {Replacements, SeedHash, ApConfig}
        /\ handles' = handles /\ buffers' \in Nat
        /\ UNCHANGED <<mounted, mounts, workerVars>>
    <3>1. CASE slot = 3
      BY <2>1, <2>3, <3>1
    <3>2. CASE slot # 3
      BY <2>1, <2>3, <3>2
    <3> QED
      BY <3>1, <3>2
  <2> HIDE DEF HookStep, NextFile, Goto
  <2> QED
    BY <2>2, <2>3, <2>4
<1>15. CASE HashTooLong
  BY <1>15 DEF HashTooLong
<1>16. CASE StartCopy
  BY <1>16 DEF StartCopy
<1>17. CASE EndCopy
  BY <1>17 DEF EndCopy
<1>18. CASE Publish
  BY <1>18 DEF Publish
<1> QED
  BY <1>1, <1>2, <1>3, <1>4, <1>5, <1>6, <1>7, <1>8, <1>9, <1>10, <1>11, <1>12,
     <1>13, <1>14, <1>15, <1>16, <1>17, <1>18, <1>19
     DEF RomMounted

LEMMA HookSteps ==
  IInv /\ (MountRom \/ Unmount \/ RomMounted) =>
    HookPoint' /\ FlagPoint' /\ TablePoint'
<1> SUFFICES ASSUME IInv, MountRom \/ Unmount \/ RomMounted
             PROVE  HookPoint' /\ FlagPoint' /\ TablePoint'
  OBVIOUS
<1> USE DEF TypeOK, HookPoint, FlagPoint, TablePoint, Listed, Passed, Faulted,
            IInv, HookStep, NextFile, Goto
<1>1. CASE MountRom
  BY <1>1 DEF MountRom
<1>2. CASE Unmount
  BY <1>2 DEF Unmount
<1>3. CASE SkipFile
  BY <1>3 DEF SkipFile
<1>4. CASE OpenFile
  BY <1>4 DEF OpenFile, AlreadyCached
<1>5. CASE NoBuffer
  BY <1>5 DEF NoBuffer
<1>6. CASE AllocBuffer
  BY <1>6 DEF AllocBuffer
<1>7. CASE ReadFails
  BY <1>7 DEF ReadFails
<1>8. CASE ReadFile
  BY <1>8 DEF ReadFile
<1>9. CASE NoUse
  BY <1>9 DEF NoUse
<1>10. CASE SetListSize
  BY <1>10 DEF SetListSize
<1>11. CASE AllocList
  <2>1. Len(g_stringList') = g_stringListSize
    BY <1>11 DEF AllocList
  <2> QED
    BY <1>11, <2>1 DEF AllocList
<1>19. CASE AllocListFails \/ FillEntryFails \/ NameIsNull
  BY <1>19 DEF AllocListFails, FillEntryFails, NameIsNull, AtEntry
<1>12. CASE FillEntry
  <2>1. Len(g_stringList') = Len(g_stringList)
    BY <1>12 DEF FillEntry
  <2> QED
    BY <1>12, <2>1 DEF FillEntry, AtEntry
<1>13. CASE ListFilled
  BY <1>13 DEF ListFilled
<1>14. CASE RenameProfile
  <2>1. PICK slot \in 1..3 :
          /\ profiles' = [profiles EXCEPT ![slot] = mounts]
          /\ IF slot = 3 THEN HookStep("profile3", 0, -1) /\ NextFile
             ELSE /\ HookStep(IF slot = 1 THEN "use" ELSE "profile2", 0, 0)
                  /\ Goto(IF slot = 1 THEN "profile2" ELSE "profile3")
    BY <1>14 DEF RenameProfile
  <2>2. file = SeedHash /\ UNCHANGED <<g_stringListSize, g_stringList, hostCache>>
    BY <1>14 DEF RenameProfile
  <2>3. CASE slot = 1
    BY <2>1, <2>2, <2>3
  <2>4. CASE slot = 2
    BY <2>1, <2>2, <2>4
  <2>5. CASE slot = 3
    BY <2>1, <2>2, <2>5
  <2> QED
    BY <2>3, <2>4, <2>5
<1>15. CASE HashTooLong
  BY <1>15 DEF HashTooLong
<1>16. CASE StartCopy
  BY <1>16 DEF StartCopy
<1>17. CASE EndCopy
  BY <1>17 DEF EndCopy
<1>18. CASE Publish
  BY <1>18 DEF Publish
<1> QED
  BY <1>1, <1>2, <1>3, <1>4, <1>5, <1>6, <1>7, <1>8, <1>9, <1>10, <1>11, <1>12,
     <1>13, <1>14, <1>15, <1>16, <1>17, <1>18, <1>19
     DEF RomMounted

\* A mount may leave a buffer behind where its second file ends.
LEMMA BufferSteps ==
  IInv /\ (MountRom \/ Unmount \/ RomMounted) => BufferPoint'
<1> SUFFICES ASSUME IInv, MountRom \/ Unmount \/ RomMounted PROVE BufferPoint'
  OBVIOUS
<1>0. mounts \in Nat /\ buffers \in Nat
  BY SweepAssumption DEF IInv, TypeOK
<1>1. file \in {Replacements, SeedHash, ApConfig} /\ HookPoint /\ BufferPoint
  BY DEF IInv, TypeOK
<1> USE <1>0, <1>1 DEF HookPoint, BufferPoint, Held, Spent, HookStep, NextFile, Goto
<1>2. CASE MountRom \/ Unmount
  BY <1>2 DEF MountRom, Unmount
<1>3. CASE SkipFile \/ OpenFile \/ NoBuffer \/ AllocBuffer
  BY <1>3 DEF SkipFile, OpenFile, NoBuffer, AllocBuffer
<1>4. CASE ReadFails \/ ReadFile \/ NoUse
  BY <1>4 DEF ReadFails, ReadFile, NoUse
<1>5. CASE SetListSize \/ AllocList \/ ListFilled
  BY <1>5 DEF SetListSize, AllocList, ListFilled
<1>6. CASE AllocListFails \/ FillEntry \/ FillEntryFails \/ NameIsNull
  BY <1>6 DEF AllocListFails, FillEntry, FillEntryFails, NameIsNull, AtEntry
<1>7. CASE RenameProfile
  BY <1>7 DEF RenameProfile
<1>8. CASE HashTooLong
  BY <1>8 DEF HashTooLong
<1>9. CASE StartCopy \/ EndCopy \/ Publish
  BY <1>9 DEF StartCopy, EndCopy, Publish
<1> QED
  BY <1>2, <1>3, <1>4, <1>5, <1>6, <1>7, <1>8, <1>9 DEF RomMounted

LEMMA WorkerSteps ==
  IInv /\ (ResolveBridge \/ ResolveAgain \/ \E d \in {"bridge", "junk"} : Arrives(d))
    => TypeOK' /\ WorkerPoint' /\ UNCHANGED gameVars
<1> SUFFICES ASSUME IInv,
                    \/ ResolveBridge \/ ResolveAgain
                    \/ \E d \in {"bridge", "junk"} : Arrives(d)
             PROVE  TypeOK' /\ WorkerPoint' /\ UNCHANGED gameVars
  OBVIOUS
<1> USE SweepAssumption DEF TypeOK, FlagPoint, WorkerPoint, IInv, WorkerStep,
        OnlyStep, openUdpSocket, closeSocket
<1>1. CASE LoopbackOpen
  BY <1>1 DEF LoopbackOpen
<1>2. CASE LoopbackOpenFails
  BY <1>2 DEF LoopbackOpenFails
<1>3. CASE LoopbackSend
  BY <1>3 DEF LoopbackSend
<1>4. CASE NoLoopback
  BY <1>4 DEF NoLoopback
<1>5. CASE LoopbackReceive
  BY <1>5 DEF LoopbackReceive
<1>6. CASE LoopbackClose
  <2>1. /\ fds' = 0 /\ asked' = FALSE /\ inbox' = {} /\ wpc' \in {"done", "config"}
        /\ UNCHANGED <<gameVars, counters, cfg_host, found>>
    BY <1>6 DEF LoopbackClose
  <2>2. {found, asked}' \subseteq BOOLEAN
    BY <2>1
  <2> QED
    BY <2>1, <2>2
<1>7. CASE NotConfigured
  BY <1>7 DEF NotConfigured
<1>8. CASE CopyHost
  BY <1>8 DEF CopyHost
<1>9. CASE CannotSweep
  BY <1>9 DEF CannotSweep
<1>10. CASE SweepOpen
  BY <1>10 DEF SweepOpen
<1>11. CASE SweepSend
  <2>1. {found, asked}' \subseteq BOOLEAN
    <3>1. {found, asked} \subseteq BOOLEAN /\ found' = found
      BY <1>11 DEF SweepSend
    <3>2. asked' = asked \/ asked' = (asked \/ host = PcHost)
      BY <1>11 DEF SweepSend
    <3> QED
      BY <3>1, <3>2
  <2>2. /\ wpc = "sweep" /\ wpc' = "sweep" /\ host' \in 1..(Hosts + 1)
        /\ UNCHANGED <<gameVars, fds, polls, cfg_host, inbox>>
    BY <1>11 DEF SweepSend
  <2> QED
    BY <2>1, <2>2
<1>12. CASE SweepSent
  BY <1>12 DEF SweepSent
<1>13. CASE Collect
  BY <1>13 DEF Collect, CollectReply
<1>14. CASE CollectNothing
  BY <1>14 DEF CollectNothing
<1>15. CASE CollectOver
  BY <1>15 DEF CollectOver
<1>16. CASE SweepClose
  <2>1. /\ fds' = 0 /\ asked' = FALSE /\ inbox' = {} /\ wpc' \in {"done", "config"}
        /\ UNCHANGED <<gameVars, counters, cfg_host, found>>
    BY <1>16 DEF SweepClose
  <2>2. {found, asked}' \subseteq BOOLEAN
    BY <2>1
  <2> QED
    BY <2>1, <2>2
<1>17. CASE ResolveAgain
  BY <1>17 DEF ResolveAgain
<1>18. ASSUME NEW d \in {"bridge", "junk"}, Arrives(d)
       PROVE  TypeOK' /\ WorkerPoint' /\ UNCHANGED gameVars
  BY <1>18 DEF Arrives
<1> QED
  BY <1>1, <1>2, <1>3, <1>4, <1>5, <1>6, <1>7, <1>8, <1>9, <1>10, <1>11, <1>12,
     <1>13, <1>14, <1>15, <1>16, <1>17, <1>18
     DEF ResolveBridge

LEMMA InitiallyInvariant == Init => IInv
<1> SUFFICES ASSUME Init PROVE IInv
  OBVIOUS
<1>1. /\ host = 1 /\ polls = 0
      /\ 0 \in 0..MaxMounts /\ 0 \in 0..MaxEntries /\ 0 \in 0..MaxPolls
      /\ 1 \in 1..(Hosts + 1)
  BY SweepAssumption DEF Init
<1>2. profiles \in [1..3 -> 0..MaxMounts]
  BY <1>1 DEF Init
<1>3. {found, asked} \subseteq BOOLEAN /\ inbox \subseteq {"bridge", "junk"}
  BY DEF Init
<1>4. g_stringList \in Seq(EntryKinds \cup {"written"})
  <2>1. g_stringList = <<>>
    BY DEF Init
  <2> QED
    BY <2>1
<1>5. mounted \in BOOLEAN /\ g_cfgHostValid \in BOOLEAN
  BY DEF Init
<1>6. /\ gpc = "idle" /\ wpc = "loopOpen" /\ file = 1
      /\ mounts = 0 /\ g_stringListSize = 0 /\ handles = 0 /\ buffers = 0 /\ fds = 0
      /\ g_cfgHost = 0 /\ cfg_host = 0
  BY DEF Init
<1>7. TypeOK
  BY <1>1, <1>2, <1>3, <1>4, <1>5, <1>6 DEF TypeOK
<1>8. HookPoint /\ BufferPoint /\ FlagPoint /\ TablePoint /\ WorkerPoint
  BY DEF Init, HookPoint, BufferPoint, Held, Spent, FlagPoint, TablePoint, Listed, Faulted, WorkerPoint
<1> QED
  BY <1>7, <1>8 DEF IInv

LEMMA InductiveStep == IInv /\ [Next]_vars => IInv'
<1> SUFFICES ASSUME IInv, [Next]_vars PROVE IInv'
  OBVIOUS
<1>1. CASE MountRom \/ Unmount \/ RomMounted
  <2>1. UNCHANGED workerVars
    BY <1>1 DEF MountRom, Unmount, RomMounted, SkipFile, OpenFile, NoBuffer,
         AllocBuffer, ReadFails, ReadFile, NoUse, SetListSize, AllocList,
         AllocListFails, FillEntry, FillEntryFails, NameIsNull, AtEntry, ListFilled, RenameProfile, HashTooLong, StartCopy, EndCopy,
         Publish, HookStep
  <2>2. WorkerPoint'
    BY <2>1 DEF IInv, WorkerPoint
  <2> QED
    BY <1>1, <2>2, HookTypes, HookSteps, BufferSteps DEF IInv
<1>2. CASE \/ ResolveBridge \/ ResolveAgain
           \/ \E d \in {"bridge", "junk"} : Arrives(d)
  <2>1. TypeOK' /\ WorkerPoint' /\ UNCHANGED gameVars
    BY <1>2, WorkerSteps
  <2>2. HookPoint' /\ BufferPoint' /\ FlagPoint' /\ TablePoint'
    BY <2>1 DEF IInv, HookPoint, BufferPoint, Held, Spent, FlagPoint, TablePoint, Listed, Passed, Faulted
  <2> QED
    BY <2>1, <2>2 DEF IInv
<1>3. CASE UNCHANGED vars
  BY <1>3 DEF vars, IInv, TypeOK, HookPoint, BufferPoint, Held, Spent, FlagPoint, TablePoint, Listed,
       Passed, Faulted, WorkerPoint
<1> QED
  BY <1>1, <1>2, <1>3 DEF Next

LEMMA Invariant == Spec => []IInv
  BY InitiallyInvariant, InductiveStep, PTL DEF Spec

-----------------------------------------------------------------------------
\* The counters of the sweep, of the mounts and of the open files stay in range,
\* for any subnet and any window.
THEOREM TypeCorrect == Spec => []TypeOK
<1>1. IInv => TypeOK
  BY DEF IInv
<1> QED
  BY <1>1, Invariant, PTL

\* RomMounted returns to the game with no file open on "rom", whichever of the
\* calls of OpenAndReadFile failed on whichever mount.
THEOREM FilesClosed == Spec => []NoHandleLeft
<1>1. IInv => NoHandleLeft
  BY DEF IInv, HookPoint, NoHandleLeft
<1> QED
  BY <1>1, Invariant, PTL

\* However the three reads of the mounts end, each mount has left at most one
\* buffer of OpenAndReadFile without its free.
THEOREM BuffersBounded == Spec => []OneBufferPerMount
<1>1. IInv => OneBufferPerMount
  BY SweepAssumption DEF IInv, TypeOK, BufferPoint, Held, Spent, OneBufferPerMount
<1> QED
  BY <1>1, Invariant, PTL

\* Each exit of resolveBridge closes the UDP socket it opened.
THEOREM SocketsClosed == Spec => []NoSocketLeft
<1>1. IInv => NoSocketLeft
  BY DEF IInv, WorkerPoint, NoSocketLeft
<1> QED
  BY <1>1, Invariant, PTL

\* readConfiguredHost copies a whole address or none: the release of
\* g_cfgHostValid comes after the last write, and no later mount writes again.
THEOREM SweepsFromWholeAddress == Spec => []SeedWhole
<1>1. IInv => SeedWhole
  BY DEF IInv, WorkerPoint, SeedWhole
<1> QED
  BY <1>1, Invariant, PTL

\* Whenever the hook comes back to the game, g_stringListSize counts the entries
\* of g_stringList, all of a kind the code reads are written, and the three save
\* slots are of one seed, whatever failed on this or an earlier mount.
THEOREM TablesRebuilt == Spec => []TablesWhole
<1>1. IInv => TablesWhole
  BY DEF IInv, TablePoint, Listed, Passed, Faulted, TablesWhole
<1> QED
  BY <1>1, Invariant, PTL
=============================================================================
